---- MODULE Spec2Model ----
(***************************************************************************)
(* A model of the FRR CI analysis scripts: the build-report parser         *)
(* (check_ci_build.py: parse_build_status, parse_asan_details,             *)
(* fetch_job_log), the time-windowed build walker and the aggregator       *)
(* (analyze_ci.py: get_builds_from_week, normalize_job_name, jobs_match,   *)
(* analyze_builds, print_detailed_failures) and the topotest loop          *)
(* (run_topotests_loop.py).                                                *)
(*                                                                         *)
(* A document is modelled after BeautifulSoup has parsed it: by the        *)
(* elements and texts the parser looks for.  A text is a sequence of       *)
(* words, a word being a maximal run of \w characters, so that the regular *)
(* expression \bfailed\b matches a text iff one of its words, lowercased,  *)
(* is "failed".                                                            *)
(***************************************************************************)
EXTENDS Integers, Sequences, FiniteSets, TLC

VARIABLES
    doc,        \* parser: the document handed to parse_build_status
    report,     \* parser: what the first call returned (or raised)
    report2,    \* parser: what a second call on the same document returned
    wk,         \* walker: the state of one get_builds_from_week call
    nm,         \* names: two job names, normalized and matched
    ag,         \* aggregator: a sequence of builds and what is computed of it
    tl          \* topotest loop: the state of one run of run_topotests_loop.py

vars == <<doc, report, report2, wk, nm, ag, tl>>

(***************************************************************************)
(* Bounds of the model                                                     *)
(***************************************************************************)
MaxFeatures == 2    \* a document shows at most this many kinds of markup
MaxJobs == 1        \* job list items in a document
MaxRef == 3         \* largest reference build id
MaxDays == 2        \* largest lookback window, in days
MaxDate == 3        \* completion dates are days 0 .. MaxDate
WalkBound == 3      \* stands for the 200 of "for i in range(200)"

NoCount == -1       \* a counter text that is not on the page
TooManyDigits == 1000000    \* a counter of more digits than int() converts

(***************************************************************************)
(* Texts as word sequences                                                 *)
(***************************************************************************)
\* str.lower() / re.I on the words the model uses
Lower(w) ==
    CASE w = "Build" -> "build"
      [] w = "FAILED" -> "failed"
      [] w = "Failed" -> "failed"
      [] w = "Successful" -> "successful"
      [] w = "Status" -> "status"
      [] w = "Test" -> "test"
      [] w = "Artifact" -> "artifact"
      [] w = "Rebuild" -> "rebuild"
      [] OTHER -> w

\* the status tokens that occur inside a (lowercased) word as a substring
Substrings(w) ==
    CASE w = "build" -> {"build"}
      [] w = "rebuild" -> {"build"}
      [] w = "failed" -> {"failed", "fail"}
      [] w = "unfailed" -> {"failed", "fail"}
      [] w = "successful" -> {"successful", "success"}
      [] w = "success" -> {"success"}
      [] w = "collapse" -> {"collapse"}
      [] w = "expand" -> {"expand"}
      [] w = "status" -> {"status"}
      [] w = "test" -> {"test"}
      [] w = "artifact" -> {"artifact"}
      [] OTHER -> {}

\* re.search(r"\btok\b", text, re.I): tok is a whole word of the text
HasWord(text, tok) == \E i \in DOMAIN text : Lower(text[i]) = tok

\* re.search(tok, text, re.I) / tok in text.lower(): tok is a substring
HasSubstring(text, tok) == \E i \in DOMAIN text : tok \in Substrings(Lower(text[i]))

\* "#\d+": a build number token
IsBuildNumber(w) == w \in {"#9"}

(***************************************************************************)
(* parse_build_status: status heuristics 1-4                               *)
(***************************************************************************)
\* mutant: "success" tested before "failed"
HeadingStatusSuccessFirst(text) ==
    IF HasWord(text, "successful") \/ HasWord(text, "success") THEN "SUCCESS"
    ELSE IF HasWord(text, "failed") THEN "FAILED"
    ELSE "Unknown"

\* the if/elif on the heading text; "Unknown" when neither word is found
HeadingStatus(text) ==
    IF HasWord(text, "failed") THEN "FAILED"
    ELSE IF HasWord(text, "successful") \/ HasWord(text, "success") THEN "SUCCESS"
    ELSE "Unknown"

\* Method 1: the first h1
Method1(d) ==
    IF d.h1 # <<>> THEN HeadingStatus(d.h1[1]) ELSE "Unknown"

\* re.compile(r"Build.*#\d+.*(failed|successful)", re.I) on one text node
MatchesBuildLine(text) ==
    \E i, j, k \in DOMAIN text :
        /\ i < j /\ j < k
        /\ "build" \in Substrings(Lower(text[i]))
        /\ IsBuildNumber(text[j])
        /\ Substrings(Lower(text[k])) \cap {"failed", "successful"} # {}

\* soup.find("h1", string=re.compile(r"Build", re.I)), else the first text
\* node that matches the build line; <<"none">> when there is none
SummaryText(d) ==
    LET hs == {i \in DOMAIN d.h1 : HasSubstring(d.h1[i], "build")}
        ts == {i \in DOMAIN d.text : MatchesBuildLine(d.text[i])}
        Min(S) == CHOOSE x \in S : \A y \in S : x <= y
    IN  IF hs # {} THEN <<"found", d.h1[Min(hs)]>>
        ELSE IF ts # {} THEN <<"found", d.text[Min(ts)]>>
        ELSE <<"none">>

\* Method 2, applied only while status is Unknown
Method2(d, st) ==
    IF st # "Unknown" THEN st
    ELSE LET s == SummaryText(d)
         IN  IF s[1] = "found" THEN HeadingStatus(s[2]) ELSE st

\* mutant: the counters are looked at whatever the status is
Method3Unguarded(d, st) ==
    IF d.newCount > 0 \/ d.existCount > 0 THEN "FAILED" ELSE st

\* Method 3: nonzero "New test failures N" / "Existing test failures N"
Method3(d, st) ==
    IF st # "Unknown" THEN st
    ELSE IF d.newCount > 0 \/ d.existCount > 0 THEN "FAILED"
    ELSE st

\* Method 4: <dt class="failing-since">
Method4(d, st) ==
    IF st # "Unknown" THEN st
    ELSE IF d.failingSince THEN "FAILED"
    ELSE st

\* status after the per-section heuristics
HeuristicStatus(d) == Method4(d, Method3(d, Method2(d, Method1(d))))

(***************************************************************************)
(* Test tables.  A table is the sequence of its tr rows, a row the         *)
(* sequence of its cells.  A cell's text is a label: "suite [case]" when   *)
(* suite is not "", else the bare text in case.  kind tells what the cell  *)
(* holds: "both" a span.test-class and an a.test-name, "link" only the     *)
(* a.test-name (its text a bare case name), "plain" neither.               *)
(***************************************************************************)
None == "None"

Label(s, c) == [suite |-> s, case |-> c]
Cell(tag, kind, l) == [tag |-> tag, kind |-> kind, text |-> l]
TD(c) == Cell("td", "plain", Label("", c))
TH(c) == Cell("th", "plain", Label("", c))

\* extract_test_suite_and_case: "Suite [Case]" gives (suite, case), any
\* other text gives (None, text)
extract_test_suite_and_case(l) ==
    IF l.suite # "" THEN <<l.suite, l.case>> ELSE <<None, l.case>>

\* row.find_all("td")
TdCells(row) == SelectSeq(row, LAMBDA c : c.tag = "td")

\* get_text() of a row, lowercased, holds tok
RowHasToken(row, tok) ==
    \E i \in DOMAIN row : row[i].text.suite = ""
                          /\ tok \in Substrings(Lower(row[i].text.case))

\* the error-indicator substrings looked for in the following row
ErrorTexts == {"AssertionError", "RFC MUST"}
RowText(row) == [i \in DOMAIN row |-> row[i].text]
HasErrorKeyword(row) == \E i \in DOMAIN row : row[i].text.case \in ErrorTexts

\* (test_name, suite_name, case_name) read from a test cell
TestOfCell(c) ==
    IF c.kind = "both" THEN <<c.text, c.text.suite, c.text.case>>
    ELSE IF c.kind = "link" THEN <<c.text, None, c.text.case>>
    ELSE <<c.text>> \o extract_test_suite_and_case(c.text)

\* not test_name or test_name.lower() in skip
SkipName(l, skip) == l.suite = "" /\ (l.case = "" \/ Lower(l.case) \in skip)

\* f"{suite_name}.{case_name}" when both are there, else case_name
FormattedCase(suite, case) ==
    IF suite # None /\ suite # "" /\ case # "" THEN <<suite, ".", case>> ELSE <<case>>

\* job name from the cell at column col, "" when the row is too short
JobName(cells, col) == IF Len(cells) >= col + 1 THEN cells[col + 1].text.case ELSE ""

\* the failure record of one row of a status/test table, <<>> when the row
\* is not taken  (trs[k] is the row, trs[k+1] its next sibling)
NewFailureOfRow(trs, k) ==
    LET cells == TdCells(trs[k])
    IN  IF Len(cells) < 2 THEN <<>>
        ELSE IF Substrings(Lower(cells[1].text.case)) \cap {"fail", "collapse"} = {}
             THEN <<>>
        ELSE LET tc == IF Len(cells) >= 3 THEN cells[3] ELSE cells[2]
                 t == TestOfCell(tc)
                 sc == IF tc.kind = "both" THEN <<t[2], t[3]>>
                       ELSE extract_test_suite_and_case(t[1])
                 nxt == IF k + 1 \in DOMAIN trs THEN trs[k + 1] ELSE <<>>
                 err == IF k + 1 \in DOMAIN trs /\ Len(TdCells(nxt)) <= 2
                           /\ HasErrorKeyword(nxt)
                        THEN RowText(nxt) ELSE <<>>
             IN  IF SkipName(t[1], {"test", "status", "view job", "failed", "collapse"})
                 THEN <<>>
                 ELSE << [test |-> t[1], suite |-> sc[1],
                          case |-> FormattedCase(sc[1], sc[2]),
                          job |-> JobName(cells, 3), error |-> err] >>

RECURSIVE NewFailuresOfRows(_, _)
NewFailuresOfRows(trs, k) ==
    IF k > Len(trs) THEN <<>>
    ELSE NewFailureOfRow(trs, k) \o NewFailuresOfRows(trs, k + 1)

\* the table has a header row that holds both "status" and "test"
IsTestTable(trs) ==
    trs # <<>> /\ RowHasToken(trs[1], "status") /\ RowHasToken(trs[1], "test")

\* the loop over all tables: new_failures
RECURSIVE NewFailures(_)
NewFailures(tables) ==
    IF tables = <<>> THEN <<>>
    ELSE (IF IsTestTable(Head(tables)) THEN NewFailuresOfRows(Head(tables), 2) ELSE <<>>)
         \o NewFailures(Tail(tables))

\* one row of a section table: <<"fixed", test_name>>, <<"existing", record>>
\* or <<>> when the row is not taken
SectionEntryOfRow(heading, row) ==
    LET cells == TdCells(row)
    IN  IF Len(cells) < 3 THEN <<>>
        ELSE LET t == TestOfCell(cells[3])
                 job_col == IF Len(cells) >= 6 THEN 4 ELSE 3
             IN  IF SkipName(t[1], {"test", "status", "failed", "expand"}) THEN <<>>
                 ELSE IF heading = "Fixed tests"
                 THEN (IF "success" \in Substrings(Lower(cells[1].text.case))
                          \/ "expand" \notin Substrings(Lower(cells[1].text.case))
                       THEN << t[1] >> ELSE <<>>)
                 ELSE << [test |-> t[1], suite |-> t[2],
                          case |-> FormattedCase(t[2], t[3]),
                          job |-> JobName(cells, job_col)] >>

RECURSIVE SectionEntriesOfRows(_, _, _)
SectionEntriesOfRows(heading, trs, k) ==
    IF k > Len(trs) THEN <<>>
    ELSE SectionEntryOfRow(heading, trs[k]) \o SectionEntriesOfRows(heading, trs, k + 1)

\* the table a section heading leads to (sec = 0: no heading or no table),
\* skipped when it has no header row, looks like an artifacts table or
\* mentions neither "test" nor "status"
SectionEntries(d, heading, sec) ==
    IF sec = 0 THEN <<>>
    ELSE LET trs == d.layout.tables[sec]
         IN  IF trs = <<>> THEN <<>>
             ELSE IF RowHasToken(trs[1], "artifact") THEN <<>>
             ELSE IF RowHasToken(trs[1], "test") \/ RowHasToken(trs[1], "status")
             THEN SectionEntriesOfRows(heading, trs, 2)
             ELSE <<>>

FixedTests(d) == SectionEntries(d, "Fixed tests", d.layout.fixedSec)
ExistingFailures(d) == SectionEntries(d, "Existing test failures", d.layout.existSec)

(***************************************************************************)
(* parse_asan_details.  A log text is modelled by what the regular         *)
(* expressions find in it: leak is group(1) of the leak pattern, summary   *)
(* the kind of the "SUMMARY: AddressSanitizer:" line, error the text of    *)
(* the "ERROR: AddressSanitizer:" line, test the cleaned test name found   *)
(* in the 10000 characters before the error position ("" when none).       *)
(***************************************************************************)
LeakSize == "16 bytes in 1 object(s)"
SummaryKinds == {"leak 16 byte", "leak", "heap-buffer-overflow", "use-after-free",
                 "stack-buffer-overflow", "global-buffer-overflow", "SEGV", ""}

Log(body, leak, summary, error, test) ==
    [body |-> body, leak |-> leak, summary |-> summary, error |-> error, test |-> test]

\* a text that holds no sanitizer output, the empty text, no text at all
\* (None), and a request that raised
NoLog == Log("text", None, None, None, "")
EmptyLog == Log("empty", None, None, None, "")
NoneLog == Log("none", None, None, None, "")
FailedRequest == Log("fail", None, None, None, "")

\* pass 1: the leak pattern
AsanLeakPass(log, dt) ==
    IF log.leak # None
    THEN [dt EXCEPT !.has_issue = TRUE, !.error_type = "memory-leak",
                    !.leak_type = log.leak, !.leak_size = LeakSize]
    ELSE dt

\* pass 2: the summary line
AsanSummaryPass(log, dt) ==
    IF log.summary = None THEN dt
    ELSE LET d1 == [dt EXCEPT !.has_issue = TRUE]
         IN  IF log.summary \in {"leak 16 byte", "leak"}
             THEN [d1 EXCEPT !.error_type = IF dt.error_type = None
                                            THEN "memory-leak" ELSE dt.error_type,
                             !.leak_size = IF log.summary = "leak 16 byte"
                                              /\ dt.leak_size = None
                                           THEN "16 bytes" ELSE dt.leak_size]
             ELSE IF log.summary = "" THEN [d1 EXCEPT !.error_type = "unknown"]
             ELSE [d1 EXCEPT !.error_type = log.summary]

\* pass 3: the error line
AsanErrorPass(log, dt) ==
    IF log.error # None /\ dt.error_type = None
    THEN [dt EXCEPT !.has_issue = TRUE, !.error_type = log.error]
    ELSE dt

\* the test name and the summary message (a tuple of the parts of the
\* formatted string; <<>> is None)
AsanSummarise(log, dt) ==
    IF ~dt.has_issue THEN dt
    ELSE LET d1 == [dt EXCEPT !.test_name = IF log.test # "" THEN log.test ELSE None]
             test == IF d1.test_name # None THEN d1.test_name ELSE "unknown test"
         IN  IF d1.error_type = "memory-leak"
             THEN [d1 EXCEPT !.leak_summary =
                      << IF d1.leak_type # None THEN d1.leak_type ELSE "Memory",
                         "leak detected",
                         IF d1.leak_size # None THEN d1.leak_size ELSE "unknown size",
                         test >>]
             ELSE [d1 EXCEPT !.leak_summary =
                      IF d1.leak_size # None
                      THEN << d1.error_type, d1.leak_size, test >>
                      ELSE << d1.error_type, test >>]

\* parse_asan_details(job_log_html, job_name): <<>> (None) for no text, an
\* empty text and a text without any sanitizer signal, else <<details>>
parse_asan_details(log) ==
    IF log.body # "text" THEN <<>>
    ELSE LET d0 == [has_issue |-> FALSE, error_type |-> None, leak_type |-> None,
                    test_name |-> None, leak_summary |-> <<>>, leak_size |-> None]
             dt == AsanSummarise(log,
                       AsanErrorPass(log, AsanSummaryPass(log, AsanLeakPass(log, d0))))
         IN  IF dt.has_issue THEN <<dt>> ELSE <<>>

(***************************************************************************)
(* fetch_job_log.  net is what the server answers to the three URL shapes  *)
(* during one call: a request that raised, or the text it sends.           *)
(***************************************************************************)
UrlShapes == 1 .. 3

RECURSIVE FirstAnswer(_, _)
FirstAnswer(net, k) ==
    IF k \notin UrlShapes THEN NoneLog
    ELSE IF net[k].body # "fail" THEN net[k]
    ELSE FirstAnswer(net, k + 1)

fetch_job_log(job_key, net) ==
    IF job_key = "" THEN NoneLog ELSE FirstAnswer(net, 1)

(***************************************************************************)
(* parse_build_status: job list items                                      *)
(***************************************************************************)
\* <li id="job-..."> : hasClass tells whether the class attribute is there,
\* cls is the list of class tokens the HTML parser made of it (class=""
\* gives the empty list)
JobItem(hasClass, cls, title, key) ==
    [hasClass |-> hasClass, cls |-> cls, title |-> title, key |-> key]

\* re.search(r"AddressSanitizer|ASAN", job_title, re.IGNORECASE)
IsAsanTitle(title) == title \in {"AddressSanitizer Debian 12", "asan amd64"}

\* job_item.get("class", [""])[0] raises IndexError on an empty list
ClassRaises(job) == job.hasClass /\ job.cls = <<>>
JobStatus(job) == IF job.hasClass THEN job.cls[1] ELSE ""

\* asan_errors entries with a test name
MatchingAsanErrors(d) == SelectSeq(d.asanPage, LAMBDA e : e.test_name # "")

\* (reason, asan_details) of a Failed job; fetch maps a job key to what
\* fetch_job_log returns for it during this call
FailedJobReason(d, job, fetch) ==
    IF ~IsAsanTitle(job.title) THEN << <<"Job failed">>, <<>> >>
    ELSE IF MatchingAsanErrors(d) # <<>>
    THEN LET e == MatchingAsanErrors(d)[1]
             reason == IF e.leak_count # None
                       THEN <<"Memory leak detected", e.leak_count, e.test_name>>
                       ELSE <<"AddressSanitizer error in", e.test_name>>
         IN  << reason,
                << [has_issue |-> TRUE,
                    error_type |-> IF e.leak_count # None THEN "memory-leak"
                                   ELSE "asan-error",
                    test_name |-> e.test_name, leak_count |-> e.leak_count,
                    leak_summary |-> reason] >> >>
    ELSE LET page == parse_asan_details(d.log)
             needLog == page = <<>> \/ page[1].leak_summary = <<>>
             job_log == fetch[job.key]
             fromLog == IF needLog /\ job_log.body = "text"
                        THEN parse_asan_details(job_log) ELSE <<>>
             details == IF fromLog # <<>> THEN fromLog ELSE page
         IN  IF details # <<>> /\ details[1].leak_summary # <<>>
             THEN << details[1].leak_summary, details >>
             ELSE << <<"AddressSanitizer detected issue - check job logs for details">>,
                     details >>

\* the entry appended to failed_jobs for one item, <<>> for other statuses
JobFailure(d, job, fetch) ==
    IF JobStatus(job) = "Unknown"
    THEN << [name |-> job.title, status |-> "Unknown", key |-> job.key,
             reason |-> IF d.hungMsg
                        THEN <<"Hung build detected (logs quiet for extended period)">>
                        ELSE <<"Unknown status">>,
             asan_details |-> <<>>] >>
    ELSE IF JobStatus(job) = "Failed"
    THEN LET r == FailedJobReason(d, job, fetch)
         IN  << [name |-> job.title, status |-> "Failed", key |-> job.key,
                 reason |-> r[1], asan_details |-> r[2]] >>
    ELSE <<>>

RECURSIVE FailedJobs(_, _, _)
FailedJobs(d, jobs, fetch) ==
    IF jobs = <<>> THEN <<>>
    ELSE JobFailure(d, Head(jobs), fetch) \o FailedJobs(d, Tail(jobs), fetch)

(***************************************************************************)
(* parse_build_status: evidence reconciliation and the report              *)
(***************************************************************************)
\* mutant: the pass that forces FAILED on failure evidence is left out
FinalStatusNoEvidencePass(st, evidence, total) ==
    IF st = "Unknown" /\ total > 0 /\ ~evidence THEN "SUCCESS" ELSE st

\* mutant: the pass that assumes SUCCESS is left out
FinalStatusNoSuccessPass(st, evidence, total) ==
    IF st = "Unknown" /\ evidence THEN "FAILED" ELSE st

\* mutant: SUCCESS is assumed without a total-test count
FinalStatusNoTotal(st, evidence, total) ==
    LET s5 == IF st = "Unknown" /\ evidence THEN "FAILED" ELSE st
    IN  IF s5 = "Unknown" /\ ~evidence THEN "SUCCESS" ELSE s5

\* the two post-hoc passes: evidence says whether any of new_failures,
\* existing_failures, failed_jobs is non-empty
FinalStatus(st, evidence, total) ==
    LET s5 == IF st = "Unknown" /\ evidence THEN "FAILED" ELSE st
    IN  IF s5 = "Unknown" /\ total > 0 /\ ~evidence THEN "SUCCESS" ELSE s5

\* int(match.group(1)) of a counter, 0 when the text is not on the page
CountOr0(n) == IF n = NoCount THEN 0 ELSE n

\* results["build_number"]: "#N" of the first h1, else the one of the URL
BuildNumber(d) ==
    IF d.h1 # <<>> /\ \E i \in DOMAIN d.h1[1] : IsBuildNumber(d.h1[1][i])
    THEN LET i == CHOOSE i \in DOMAIN d.h1[1] : IsBuildNumber(d.h1[1][i]) IN d.h1[1][i]
    ELSE "#url"

\* the dictionary parse_build_status returns
Results(d, fetch) ==
    LET new == NewFailures(d.layout.tables)
        existing == ExistingFailures(d)
        jobs == FailedJobs(d, d.jobs, fetch)
        total == CountOr0(d.totalTests)
    IN  [build_number |-> BuildNumber(d),
         status |-> FinalStatus(HeuristicStatus(d),
                                new # <<>> \/ existing # <<>> \/ jobs # <<>>, total),
         completed_time |-> d.completed,
         new_failures |-> new,
         existing_failures |-> existing,
         fixed_tests |-> FixedTests(d),
         failed_jobs |-> jobs,
         quarantined_skipped |-> CountOr0(d.quarantined),
         total_tests |-> total]

\* int(match.group(1)) raises ValueError on more than 4300 digits: the two
\* failure counters are converted only while status is still Unknown
IntRaises(d) ==
    \/ /\ Method2(d, Method1(d)) = "Unknown"
       /\ (d.newCount = TooManyDigits \/ d.existCount = TooManyDigits)
    \/ d.totalTests = TooManyDigits
    \/ d.quarantined = TooManyDigits

\* what one call does: it returns the dictionary, or an exception leaves it
NotCalled == [outcome |-> "none", value |-> <<>>]
parse_build_status(d, fetch) ==
    IF IntRaises(d) THEN [outcome |-> "ValueError", value |-> <<>>]
    ELSE IF \E i \in DOMAIN d.jobs : ClassRaises(d.jobs[i])
    THEN [outcome |-> "IndexError", value |-> <<>>]
    ELSE [outcome |-> "returned", value |-> <<Results(d, fetch)>>]

(***************************************************************************)
(* The documents the parser is run on                                      *)
(***************************************************************************)
\* results["completed_time"]: kind "none" (no <time> element), "empty"
\* (an empty text), "nomatch" (a text the date pattern does not match),
\* "badday" (a text it matches and strptime rejects), "date" (day is the
\* calendar day the text names)
TimeText(kind, day) == [kind |-> kind, day |-> day]
NoTime == TimeText("none", 0)

Headings ==
    { <<"Build", "#9", "FAILED">>, <<"Build", "#9", "successful">>,
      <<"Build", "#9", "successful", "FAILED">>, <<"success">>,
      <<"Build", "#9">>, <<"Build", "unfailed">>, <<"Results">>, <<"Results", "unfailed">> }
SecondHeadings == { <<"Build", "#9", "FAILED">>, <<"Rebuild", "Successful">> }
H1Lists ==
    {<<h>> : h \in Headings}
    \cup {<<h, g>> : h \in {<<"Results">>, <<"Build", "#9">>}, g \in SecondHeadings}
TextNodes ==
    { << <<"Build", "#9", "FAILED">> >>, << <<"Build", "#9", "successful">> >>,
      << <<"Build", "#9", "unfailed">> >> }

HdrStatusTest == <<TH("Status"), TH("Test"), TH("View job")>>
HdrTest == <<TH("Test"), TH("Job")>>
HdrArtifact == <<TH("Artifact"), TH("Status")>>
RowNew ==
    <<TD("collapse"), TD("Failed"),
      Cell("td", "both", Label("BGP Suite", "test_peer_down")), TD("AMD64 Basic")>>
RowExisting ==
    <<TD("collapse"), TD("Failed"),
      Cell("td", "plain", Label("RFC-Compliance-tests", "ANVL-LDP-9.5")),
      TD("since #9000"), TD("LDP Testing on Debian 12"), TD("1 min")>>
RowFixed ==
    <<TD("Successful"), Cell("td", "link", Label("", "test_ok")),
      TD("since #8990"), TD("AMD64 Basic")>>
RowDetail == <<TD("AssertionError")>>
RowHeaderLike == <<TD("collapse"), TD("Status"), TD("Test"), TD("View job")>>
RowShort == <<TD("Failed"), Cell("td", "link", Label("", "test_x"))>>
Bodies ==
    { <<>>, <<RowNew, RowDetail>>, <<RowExisting>>, <<RowFixed>>,
      <<RowHeaderLike>>, <<RowShort>> }
Tables == {<<>>} \cup {<<h>> \o b : h \in {HdrStatusTest, HdrTest, HdrArtifact}, b \in Bodies}

\* the tables of the page and the table each section heading leads to
\* (0: the heading is not on the page, or no table belongs to it)
Layout(tables, fixedSec, existSec) ==
    [tables |-> tables, fixedSec |-> fixedSec, existSec |-> existSec]
NoTables == Layout(<<>>, 0, 0)
Layouts ==
    {Layout(<<t>>, f, e) : t \in Tables, f \in 0 .. 1, e \in 0 .. 1}
    \cup {Layout(<< <<HdrStatusTest, RowNew>>, <<HdrStatusTest, RowExisting>> >>, 0, 2),
          Layout(<< <<HdrStatusTest, RowFixed>>, <<HdrStatusTest, RowExisting>> >>, 1, 2)}

JobKeys == {"", "FRR-ASAN", "FRR-LDP", "FRR-BASIC"}
JobItems ==
    { JobItem(TRUE, <<"Failed">>, "AddressSanitizer Debian 12", "FRR-ASAN"),
      JobItem(TRUE, <<"Failed", "collapsed">>, "asan amd64", ""),
      JobItem(TRUE, <<"Failed">>, "IPv4 LDP Protocol on Debian 12", "FRR-LDP"),
      JobItem(TRUE, <<"Unknown">>, "IPv4 LDP Protocol on Debian 12", "FRR-LDP"),
      JobItem(TRUE, <<"Successful">>, "Basic Tests", "FRR-BASIC"),
      JobItem(FALSE, <<>>, "Basic Tests", "FRR-BASIC"),
      JobItem(TRUE, <<>>, "Basic Tests", "FRR-BASIC") }
RECURSIVE SeqsUpTo(_, _)
SeqsUpTo(S, n) ==
    IF n = 0 THEN {<<>>}
    ELSE LET shorter == SeqsUpTo(S, n - 1)
         IN  shorter \cup {Append(q, x) : q \in shorter, x \in S}
JobLists == SeqsUpTo(JobItems, MaxJobs) \ {<<>>}

AsanPages ==
    { << [test_name |-> "bfd_vrf_topo1.test_bfd_vrf_topo1", leak_count |-> "3"] >>,
      << [test_name |-> "bfd_vrf_topo1.test_bfd_vrf_topo1", leak_count |-> None] >>,
      << [test_name |-> "", leak_count |-> None] >> }

LeakLog == Log("text", "Direct", None, None, "test_bgp_evpn")
OverflowLog == Log("text", None, "heap-buffer-overflow", None, "")
\* "Direct leak of 16 byte(s) in 1 object(s)" followed by
\* "SUMMARY: AddressSanitizer: heap-buffer-overflow"
LeakThenOverflowLog == Log("text", "Direct", "heap-buffer-overflow", None, "")
PageLogs == {LeakLog, OverflowLog, LeakThenOverflowLog}
\* what the server may answer to one log request
LogAnswers == {FailedRequest, EmptyLog, NoLog, LeakLog}

Features ==
    {"h1", "text", "newCount", "existCount", "failingSince", "completed",
     "totalTests", "quarantined", "asanPage", "layout", "jobs", "hungMsg", "log"}

\* the documents that show exactly the kinds of markup in F
DocsWith(F) ==
    [h1 : IF "h1" \in F THEN H1Lists ELSE {<<>>},
     text : IF "text" \in F THEN TextNodes ELSE {<<>>},
     newCount : IF "newCount" \in F THEN {0, 2, TooManyDigits} ELSE {NoCount},
     existCount : IF "existCount" \in F THEN {0, 27} ELSE {NoCount},
     failingSince : IF "failingSince" \in F THEN {TRUE} ELSE {FALSE},
     completed : IF "completed" \in F
                 THEN {TimeText("date", 1), TimeText("nomatch", 0)} ELSE {NoTime},
     totalTests : IF "totalTests" \in F THEN {0, 500, TooManyDigits} ELSE {NoCount},
     quarantined : IF "quarantined" \in F THEN {3} ELSE {NoCount},
     asanPage : IF "asanPage" \in F THEN AsanPages ELSE {<<>>},
     layout : IF "layout" \in F THEN Layouts ELSE {NoTables},
     jobs : IF "jobs" \in F THEN JobLists ELSE {<<>>},
     hungMsg : IF "hungMsg" \in F THEN {TRUE} ELSE {FALSE},
     log : IF "log" \in F THEN PageLogs ELSE {NoLog}]

Docs == UNION {DocsWith(F) : F \in {G \in SUBSET Features : Cardinality(G) <= MaxFeatures}}

\* what fetch_job_log may return for each job key during one call
Fetches ==
    {[k \in JobKeys |-> fetch_job_log(k, net)] : net \in [UrlShapes -> LogAnswers]}

(***************************************************************************)
(* The parser's specification: a document is parsed, and parsed again      *)
(***************************************************************************)
WalkIdle == [pc |-> "idle"]
NamesIdle == [pc |-> "idle"]
AggIdle == [pc |-> "idle"]
LoopIdle == [pc |-> "idle"]

InitParse ==
    /\ doc \in Docs
    /\ tl = LoopIdle
    /\ report = NotCalled
    /\ report2 = NotCalled
    /\ wk = WalkIdle
    /\ nm = NamesIdle
    /\ ag = AggIdle

Parse ==
    /\ report.outcome = "none"
    /\ \E fetch \in Fetches : report' = parse_build_status(doc, fetch)
    /\ UNCHANGED <<doc, report2, wk, nm, ag, tl>>

ParseAgain ==
    /\ report.outcome # "none"
    /\ report2.outcome = "none"
    /\ \E fetch \in Fetches : report2' = parse_build_status(doc, fetch)
    /\ UNCHANGED <<doc, report, wk, nm, ag, tl>>

NextParse == Parse \/ ParseAgain

SpecParse == InitParse /\ [][NextParse]_vars

(***************************************************************************)
(* get_builds_from_week.  page[n] is the completion time text of build n's *)
(* page (what parse_build_status puts in results["completed_time"]); each  *)
(* try body either gets the parsed page or leaves by an exception, raised  *)
(* by download_page_safe or by parse_build_status.                         *)
(***************************************************************************)
NoDate == -1

\* re.match of the date pattern and datetime.strptime: the day, or NoDate
\* when the text is empty, does not match or is rejected (ValueError)
ParseDate(t) == IF t.kind = "date" THEN t.day ELSE NoDate

PageTimes ==
    {NoTime, TimeText("nomatch", 0), TimeText("badday", 0)}
    \cup {TimeText("date", d) : d \in 0 .. MaxDate}

TryOutcomes == {"ok", "download failed", "parse raised"}

InitWalk ==
    /\ doc \in DocsWith({})
    /\ tl = LoopIdle
    /\ report = NotCalled
    /\ report2 = NotCalled
    /\ nm = NamesIdle
    /\ ag = AggIdle
    /\ \E ref \in 1 .. MaxRef, days \in 1 .. MaxDays :
         \E page \in [1 .. ref -> PageTimes] :
            wk = [pc |-> "init", latest_build_num |-> ref, days |-> days,
                  page |-> page, reference_date |-> NoDate, i |-> 0,
                  builds |-> <<>>, fetched |-> <<>>, end |-> "running",
                  reported |-> <<>>]

\* the call noted in fetched: which build was asked for and how the try
\* body ended
Fetched(n, outcome) == [number |-> n, outcome |-> outcome]

\* the reference date is known: the loop starts with an empty result
ReferenceKnown(w, date) ==
    [w EXCEPT !.pc = "step", !.reference_date = date]

\* mutant: "if not reference_date: return builds" is left out
AfterReferenceNoDateCheck(w, outcome, date) ==
    IF outcome # "ok" THEN [w EXCEPT !.pc = "done", !.end = "no reference"]
    ELSE ReferenceKnown(w, date)

\* how the try body ended and what date was parsed decide whether the
\* function returns the empty list or enters the loop
AfterReference(w, outcome, date) ==
    IF outcome # "ok" THEN [w EXCEPT !.pc = "done", !.end = "no reference"]
    ELSE IF date = NoDate THEN [w EXCEPT !.pc = "done", !.end = "no reference date"]
    ELSE ReferenceKnown(w, date)

\* the reference build is fetched and parsed for its completion date
FetchReference ==
    /\ wk.pc = "init"
    /\ \E outcome \in TryOutcomes :
         wk' = AfterReference(
                   [wk EXCEPT !.fetched = Append(@, Fetched(wk.latest_build_num, outcome))],
                   outcome, ParseDate(wk.page[wk.latest_build_num]))
    /\ UNCHANGED <<doc, report, report2, nm, ag, tl>>

\* mutant: the loop asks for the reference build again and again
build_num_reference(w) == w.latest_build_num

build_num(w) == w.latest_build_num - w.i
cutoff_date(w) == w.reference_date - w.days

\* range(200) is used up
LoopExhausted ==
    /\ wk.pc = "step"
    /\ wk.i >= WalkBound
    /\ wk' = [wk EXCEPT !.pc = "done", !.end = "bound"]
    /\ UNCHANGED <<doc, report, report2, nm, ag, tl>>

\* if build_num < 1: break
StepUnderflow ==
    /\ wk.pc = "step"
    /\ wk.i < WalkBound
    /\ build_num(wk) < 1
    /\ wk' = [wk EXCEPT !.pc = "done", !.end = "underflow"]
    /\ UNCHANGED <<doc, report, report2, nm, ag, tl>>

\* mutant: an exception in the try body ends the loop
StepAfterException(w) == [w EXCEPT !.pc = "done", !.end = "exception"]

\* except Exception: ... continue
StepAfterFailure(w) == [w EXCEPT !.i = @ + 1]

\* the try body leaves by an exception: the id is skipped
StepFetchFails ==
    /\ wk.pc = "step"
    /\ wk.i < WalkBound
    /\ build_num(wk) >= 1
    /\ \E outcome \in TryOutcomes \ {"ok"} :
         wk' = StepAfterFailure(
                   [wk EXCEPT !.fetched = Append(@, Fetched(build_num(wk), outcome))])
    /\ UNCHANGED <<doc, report, report2, nm, ag, tl>>

\* mutant: a page without a date that parses counts as older than the cutoff
IsBeforeCutoffOrUndated(w, date) == date = NoDate \/ date < cutoff_date(w)

\* a date was parsed and build_date < cutoff_date
IsBeforeCutoff(w, date) == date # NoDate /\ date < cutoff_date(w)

\* mutant: the build is appended before its date is tested
CutoffAppends(w) ==
    [w EXCEPT !.pc = "done", !.end = "cutoff",
              !.builds = Append(@, [number |-> build_num(w),
                                    completed_time |-> w.page[build_num(w)]])]

\* break at the cutoff: the results so far are final
CutoffReached(w) == [w EXCEPT !.pc = "done", !.end = "cutoff"]

\* the page is fetched and parsed and its date is older than the cutoff
StepCutoff ==
    /\ wk.pc = "step"
    /\ wk.i < WalkBound
    /\ build_num(wk) >= 1
    /\ IsBeforeCutoff(wk, ParseDate(wk.page[build_num(wk)]))
    /\ wk' = CutoffReached(
                 [wk EXCEPT !.fetched = Append(@, Fetched(build_num(wk), "ok"))])
    /\ UNCHANGED <<doc, report, report2, nm, ag, tl>>

\* the page is fetched and parsed and is not older than the cutoff (or has
\* no date that parses): it is appended
StepAppend ==
    /\ wk.pc = "step"
    /\ wk.i < WalkBound
    /\ build_num(wk) >= 1
    /\ ~IsBeforeCutoff(wk, ParseDate(wk.page[build_num(wk)]))
    /\ wk' = [wk EXCEPT !.fetched = Append(@, Fetched(build_num(wk), "ok")),
                        !.builds = Append(@, [number |-> build_num(wk),
                                              completed_time |-> wk.page[build_num(wk)]]),
                        !.i = @ + 1]
    /\ UNCHANGED <<doc, report, report2, nm, ag, tl>>

NextWalk ==
    \/ FetchReference
    \/ LoopExhausted
    \/ StepUnderflow
    \/ StepFetchFails
    \/ StepCutoff
    \/ StepAppend

SpecWalk == InitWalk /\ [][NextWalk]_vars

(***************************************************************************)
(* main of analyze_ci.py around the walk.  reported holds the sequence     *)
(* main hands to analyze_builds, print_statistics and                      *)
(* print_detailed_failures, when it gets that far.                         *)
(***************************************************************************)
\* Ctrl-C while get_builds_from_week runs: KeyboardInterrupt is not an
\* Exception, so neither "except Exception" of the walk nor
\* "except RequestException" of the download catches it, and main has no
\* handler: the interpreter ends with a traceback
Interrupt ==
    /\ wk.pc \in {"init", "step"}
    /\ wk' = [wk EXCEPT !.pc = "killed", !.end = "KeyboardInterrupt"]
    /\ UNCHANGED <<doc, report, report2, nm, ag, tl>>

\* if not builds: print("No builds found to analyze"); sys.exit(1)
MainNoBuilds ==
    /\ wk.pc = "done"
    /\ wk.builds = <<>>
    /\ wk' = [wk EXCEPT !.pc = "exit 1"]
    /\ UNCHANGED <<doc, report, report2, nm, ag, tl>>

\* stats = analyze_builds(builds); print_statistics(stats);
\* print_detailed_failures(builds)
MainReports ==
    /\ wk.pc = "done"
    /\ wk.builds # <<>>
    /\ wk' = [wk EXCEPT !.pc = "reported", !.reported = <<wk.builds>>]
    /\ UNCHANGED <<doc, report, report2, nm, ag, tl>>

NextMain ==
    \/ NextWalk
    \/ Interrupt
    \/ MainNoBuilds
    \/ MainReports

SpecMain == InitWalk /\ [][NextMain]_vars

\* the function runs on: every request has a timeout and every statement of
\* the loop body ends, so a step that can be taken is taken
SpecWalkLive == SpecWalk /\ WF_vars(NextWalk)

(***************************************************************************)
(* Job names.  normalize_job_name and jobs_match work on the characters of *)
(* a name (str.replace and "in" are substring operations), so a string is  *)
(* modelled as the sequence of its characters.                             *)
(***************************************************************************)
UpperCase == <<"A", "B", "C", "D", "E", "F", "G", "H", "I", "J", "K", "L", "M", "N", "O", "P", "Q", "R", "S", "T", "U", "V", "W", "X", "Y", "Z">>
LowerCase == <<"a", "b", "c", "d", "e", "f", "g", "h", "i", "j", "k", "l", "m", "n", "o", "p", "q", "r", "s", "t", "u", "v", "w", "x", "y", "z">>

\* str.lower()
str_lower(s) ==
    [i \in DOMAIN s |->
        IF \E k \in DOMAIN UpperCase : UpperCase[k] = s[i]
        THEN LowerCase[CHOOSE k \in DOMAIN UpperCase : UpperCase[k] = s[i]]
        ELSE s[i]]

\* the string starts with p
StartsWith(s, p) == Len(s) >= Len(p) /\ SubSeq(s, 1, Len(p)) = p

\* str.replace(p, ""): the occurrences of p, found from left to right
\* without overlap, are removed
RECURSIVE str_remove(_, _)
str_remove(s, p) ==
    IF s = <<>> THEN <<>>
    ELSE IF StartsWith(s, p) THEN str_remove(SubSeq(s, Len(p) + 1, Len(s)), p)
    ELSE <<s[1]>> \o str_remove(Tail(s), p)

\* str.split(): the maximal runs of characters other than the blank
RECURSIVE SplitFrom(_, _, _)
SplitFrom(s, cur, acc) ==
    IF s = <<>> THEN (IF cur = <<>> THEN acc ELSE Append(acc, cur))
    ELSE IF s[1] = " "
         THEN SplitFrom(Tail(s), <<>>, IF cur = <<>> THEN acc ELSE Append(acc, cur))
         ELSE SplitFrom(Tail(s), Append(cur, s[1]), acc)

str_split(s) == SplitFrom(s, <<>>, <<>>)

\* " ".join(words)
RECURSIVE str_join(_)
str_join(words) ==
    IF words = <<>> THEN <<>>
    ELSE IF Len(words) = 1 THEN words[1]
    ELSE words[1] \o <<" ">> \o str_join(Tail(words))

\* a in b
str_in(a, b) ==
    \E i \in 1 .. Len(b) - Len(a) + 1 : SubSeq(b, i, i + Len(a) - 1) = a

\* mutant: the address family is kept in the name
FillerWordsWithoutFamily == <<<<"t", "e", "s", "t", "i", "n", "g">>, <<"p", "r", "o", "t", "o", "c", "o", "l">>, <<"o", "n">>, <<"t", "h", "e">>, <<"t", "e", "s", "t">>, <<"t", "e", "s", "t", "s">>, <<"b", "a", "s", "i", "c">>>>

\* the words normalize_job_name removes, in the order it removes them
FillerWords == <<<<"t", "e", "s", "t", "i", "n", "g">>, <<"p", "r", "o", "t", "o", "c", "o", "l">>, <<"o", "n">>, <<"t", "h", "e">>, <<"t", "e", "s", "t">>, <<"t", "e", "s", "t", "s">>, <<"i", "p", "v", "4">>, <<"i", "p", "v", "6">>, <<"b", "a", "s", "i", "c">>>>

RECURSIVE RemoveAll(_, _)
RemoveAll(s, ws) ==
    IF ws = <<>> THEN s ELSE RemoveAll(str_remove(s, ws[1]), Tail(ws))

normalize_job_name(job_name) ==
    str_join(str_split(RemoveAll(str_lower(job_name), FillerWords)))

\* mutant: amd64 stays in the word sets
common_words_without_amd64 == {<<"p", "a", "r", "t">>, <<"b", "u", "i", "l", "d">>, <<"a", "r", "m", "8">>, <<"i", "3", "8", "6">>}

\* the words jobs_match leaves out of both word sets
common_words == {<<"p", "a", "r", "t">>, <<"b", "u", "i", "l", "d">>, <<"a", "m", "d", "6", "4">>, <<"a", "r", "m", "8">>, <<"i", "3", "8", "6">>}

Range(f) == {f[i] : i \in DOMAIN f}

Min(a, b) == IF a <= b THEN a ELSE b

\* mutant: the word overlap alone decides
jobs_match_words_only(job1_normalized, job2_normalized) ==
    LET words1 == Range(str_split(job1_normalized)) \ common_words
        words2 == Range(str_split(job2_normalized)) \ common_words
    IN  /\ words1 # {} /\ words2 # {}
        /\ 100 * Cardinality(words1 \cap words2)
               >= 66 * Min(Cardinality(words1), Cardinality(words2))

jobs_match(job1_normalized, job2_normalized) ==
    IF str_in(job1_normalized, job2_normalized) \/ str_in(job2_normalized, job1_normalized)
    THEN TRUE
    ELSE LET words1 == Range(str_split(job1_normalized)) \ common_words
             words2 == Range(str_split(job2_normalized)) \ common_words
             min_words == Min(Cardinality(words1), Cardinality(words2))
         IN  IF words1 = {} \/ words2 = {} THEN FALSE
             ELSE min_words > 0 /\ 100 * Cardinality(words1 \cap words2) >= 66 * min_words

(***************************************************************************)
(* Names given to normalize_job_name and jobs_match: job titles of the CI  *)
(* plan, and every name of up to MaxWords words of a small vocabulary.     *)
(***************************************************************************)
MaxWords == 2

LdpProtocolJob == <<"I", "P", "v", "4", " ", "L", "D", "P", " ", "P", "r", "o", "t", "o", "c", "o", "l", " ", "o", "n", " ", "D", "e", "b", "i", "a", "n", " ", "1", "2">>
LdpTestingJob == <<"L", "D", "P", " ", "T", "e", "s", "t", "i", "n", "g", " ", "o", "n", " ", "D", "e", "b", "i", "a", "n", " ", "1", "2">>
OspfTestingJob == <<"O", "S", "P", "F", " ", "T", "e", "s", "t", "i", "n", "g", " ", "o", "n", " ", "D", "e", "b", "i", "a", "n", " ", "1", "2">>
BasicTestsJob == <<"B", "a", "s", "i", "c", " ", "T", "e", "s", "t", "s">>
AsanJob == <<"A", "d", "d", "r", "e", "s", "s", "S", "a", "n", "i", "t", "i", "z", "e", "r", " ", "D", "e", "b", "i", "a", "n", " ", "1", "2", " ", "a", "m", "d", "6", "4">>
BuildJob == <<"a", "m", "d", "6", "4", " ", "b", "u", "i", "l", "d">>
NoName == <<>>

JobTitles ==
    {LdpProtocolJob, LdpTestingJob, OspfTestingJob, BasicTestsJob, AsanJob,
     BuildJob, NoName}

Vocabulary ==
    {<<"I", "P", "v", "4">>,
     <<"L", "D", "P">>,
     <<"o", "n">>,
     <<"D", "e", "b", "i", "a", "n">>,
     <<"1", "2">>,
     <<"a", "m", "d", "6", "4">>,
     <<"P", "y", "t", "h", "o", "n">>,
     <<"T", "e", "s", "t", "s">>}

NamesUpTo(n) == {str_join(ws) : ws \in SeqsUpTo(Vocabulary, n)}

FirstNames == NamesUpTo(MaxWords) \cup JobTitles
SecondNames == NamesUpTo(MaxWords - 1) \cup JobTitles

InitNames ==
    /\ doc \in DocsWith({})
    /\ tl = LoopIdle
    /\ report = NotCalled
    /\ report2 = NotCalled
    /\ wk = WalkIdle
    /\ ag = AggIdle
    /\ \E a \in FirstNames, b \in SecondNames :
         nm = [pc |-> "names", a |-> a, b |-> b, na |-> <<>>, nb |-> <<>>,
               ab |-> FALSE, ba |-> FALSE, aa |-> FALSE, bb |-> FALSE]

\* both names are normalized
Normalize ==
    /\ nm.pc = "names"
    /\ nm' = [nm EXCEPT !.pc = "normalized",
                        !.na = normalize_job_name(nm.a),
                        !.nb = normalize_job_name(nm.b)]
    /\ UNCHANGED <<doc, report, report2, wk, ag, tl>>

\* the normalized names are matched, in both orders and each with itself
Match ==
    /\ nm.pc = "normalized"
    /\ nm' = [nm EXCEPT !.pc = "matched",
                        !.ab = jobs_match(nm.na, nm.nb),
                        !.ba = jobs_match(nm.nb, nm.na),
                        !.aa = jobs_match(nm.na, nm.na),
                        !.bb = jobs_match(nm.nb, nm.nb)]
    /\ UNCHANGED <<doc, report, report2, wk, ag, tl>>

NextNames == Normalize \/ Match

SpecNames == InitNames /\ [][NextNames]_vars

(***************************************************************************)
(* analyze_builds.  A build is [number, results]; of the results only      *)
(* status, new_failures, existing_failures and failed_jobs are read.  The  *)
(* defaultdict counters are functions whose domain is the keys seen so     *)
(* far.                                                                    *)
(***************************************************************************)
\* d[k] of a defaultdict
Get(d, k, default) == IF k \in DOMAIN d THEN d[k] ELSE default

\* d[k] += 1 of a defaultdict(int)
Inc(d, k) == (k :> Get(d, k, 0) + 1) @@ d

EmptyDict == <<>>

HungTimeoutTest == <<"(", "H", "u", "n", "g", "/", "T", "i", "m", "e", "o", "u", "t", ")">>
JobFailedTest == <<"(", "J", "o", "b", " ", "F", "a", "i", "l", "e", "d", ")">>

\* f"{job_name} - {test_case}"
combined_key(job_name, test_case) == job_name \o <<" ", "-", " ">> \o test_case

NoTestData == [count |-> 0, jobs |-> EmptyDict, builds |-> {}]

\* stats["test_failures"][test_case]: count, jobs[job_name] and builds
TestCounted(test_failures, test_case, job_name, build_number) ==
    LET data == Get(test_failures, test_case, NoTestData)
    IN  (test_case :> [count |-> data.count + 1,
                       jobs |-> Inc(data.jobs, job_name),
                       builds |-> data.builds \cup {build_number}]) @@ test_failures

\* mutant: the RFC test stands before the AssertionError test
ErrorTypeRfcFirst(error) ==
    IF str_in(<<"R", "F", "C">>, error) \/ str_in(<<"M", "U", "S", "T">>, error) THEN <<"RFC Compliance">>
    ELSE IF str_in(<<"A", "s", "s", "e", "r", "t", "i", "o", "n", "E", "r", "r", "o", "r">>, error) THEN <<"AssertionError">>
    ELSE IF str_in(<<"t", "i", "m", "e", "o", "u", "t">>, str_lower(error)) \/ str_in(<<"h", "u", "n", "g">>, str_lower(error))
         THEN <<"Timeout/Hung">>
    ELSE IF error # <<>> THEN <<"Other Error">>
    ELSE <<>>

\* the bucket of an error excerpt; no bucket for the empty excerpt
ErrorType(error) ==
    IF str_in(<<"A", "s", "s", "e", "r", "t", "i", "o", "n", "E", "r", "r", "o", "r">>, error) THEN <<"AssertionError">>
    ELSE IF str_in(<<"R", "F", "C">>, error) \/ str_in(<<"M", "U", "S", "T">>, error) THEN <<"RFC Compliance">>
    ELSE IF str_in(<<"t", "i", "m", "e", "o", "u", "t">>, str_lower(error)) \/ str_in(<<"h", "u", "n", "g">>, str_lower(error))
         THEN <<"Timeout/Hung">>
    ELSE IF error # <<>> THEN <<"Other Error">>
    ELSE <<>>

ErrorCounted(error_types, error) ==
    IF ErrorType(error) = <<>> THEN error_types
    ELSE Inc(error_types, ErrorType(error)[1])

\* one pass of "for failure in results['new_failures']"
NewFailureCounted(stats, failure, build_number) ==
    [stats EXCEPT
        !.combined_failures = Inc(@, combined_key(failure.job, failure.case)),
        !.test_failures = TestCounted(@, failure.case, failure.job, build_number),
        !.error_types = ErrorCounted(@, failure.error)]

\* one pass of "for failure in results['existing_failures']"
ExistingFailureCounted(stats, failure, build_number) ==
    [stats EXCEPT
        !.combined_failures = Inc(@, combined_key(failure.job, failure.case)),
        !.test_failures = TestCounted(@, failure.case, failure.job, build_number)]

RECURSIVE NewFailuresCounted(_, _, _)
NewFailuresCounted(stats, failures, build_number) ==
    IF failures = <<>> THEN stats
    ELSE NewFailuresCounted(NewFailureCounted(stats, failures[1], build_number),
                            Tail(failures), build_number)

RECURSIVE ExistingFailuresCounted(_, _, _)
ExistingFailuresCounted(stats, failures, build_number) ==
    IF failures = <<>> THEN stats
    ELSE ExistingFailuresCounted(ExistingFailureCounted(stats, failures[1], build_number),
                                 Tail(failures), build_number)

\* jobs_with_test_failures_normalized after both failure loops of a build
TrackedJobs(results) ==
    {normalize_job_name(results.new_failures[i].job) : i \in DOMAIN results.new_failures}
    \cup {normalize_job_name(results.existing_failures[i].job) :
             i \in DOMAIN results.existing_failures}

\* already_tracked: the job matches a job that has test failures
AlreadyTracked(job_name, tracked) ==
    \E tracked_job_normalized \in tracked :
        jobs_match(normalize_job_name(job_name), tracked_job_normalized)

HungCounted(stats, job_name, build_number) ==
    [stats EXCEPT
        !.hung_jobs = Inc(@, job_name),
        !.test_failures = TestCounted(@, HungTimeoutTest, job_name, build_number)]

JobFailedCounted(stats, job_name, build_number) ==
    [stats EXCEPT
        !.combined_failures = Inc(@, combined_key(job_name, JobFailedTest)),
        !.test_failures = TestCounted(@, JobFailedTest, job_name, build_number)]

\* mutant: a hung job is left out, like a failed one, when a test failure
\* of the build has a matching job name
FailedJobCountedIfUntracked(stats, job, build_number, tracked) ==
    IF AlreadyTracked(job.name, tracked) THEN stats
    ELSE IF job.status = "Unknown" THEN HungCounted(stats, job.name, build_number)
    ELSE JobFailedCounted(stats, job.name, build_number)

\* one pass of "for job in results['failed_jobs']"
FailedJobCounted(stats, job, build_number, tracked) ==
    IF job.status = "Unknown" THEN HungCounted(stats, job.name, build_number)
    ELSE IF AlreadyTracked(job.name, tracked) THEN stats
    ELSE JobFailedCounted(stats, job.name, build_number)

RECURSIVE FailedJobsCounted(_, _, _, _)
FailedJobsCounted(stats, jobs, build_number, tracked) ==
    IF jobs = <<>> THEN stats
    ELSE FailedJobsCounted(FailedJobCounted(stats, jobs[1], build_number, tracked),
                           Tail(jobs), build_number, tracked)

\* the status branch at the head of the loop body
StatusCounted(stats, status, build_number) ==
    IF status = "SUCCESS"
    THEN [stats EXCEPT !.successful = @ + 1,
                       !.builds_by_status.SUCCESS = Append(@, build_number)]
    ELSE [stats EXCEPT !.failed = @ + 1,
                       !.builds_by_status.FAILED = Append(@, build_number)]

\* mutant: the tracked job names of earlier builds are kept
TrackedJobsOfAll(before, results) == before \cup TrackedJobs(results)

\* the tracked job names start empty in every build
TrackedJobsOfBuild(before, results) == TrackedJobs(results)

\* the body of "for build in builds"
BuildCounted(stats, build, tracked) ==
    FailedJobsCounted(
        ExistingFailuresCounted(
            NewFailuresCounted(
                StatusCounted(stats, build.results.status, build.number),
                build.results.new_failures, build.number),
            build.results.existing_failures, build.number),
        build.results.failed_jobs, build.number, tracked)

RECURSIVE BuildsCounted(_, _, _)
BuildsCounted(stats, builds, before) ==
    IF builds = <<>> THEN stats
    ELSE LET tracked == TrackedJobsOfBuild(before, builds[1].results)
         IN  BuildsCounted(BuildCounted(stats, builds[1], tracked), Tail(builds), tracked)

NewStats(builds) ==
    [total |-> Len(builds), successful |-> 0, failed |-> 0,
     combined_failures |-> EmptyDict, test_failures |-> EmptyDict,
     hung_jobs |-> EmptyDict, error_types |-> EmptyDict,
     builds_by_status |-> [SUCCESS |-> <<>>, FAILED |-> <<>>]]

analyze_builds(builds) == BuildsCounted(NewStats(builds), builds, {})

(***************************************************************************)
(* print_detailed_failures: the builds that are not SUCCESS are grouped by *)
(* failure signature.  tuple(sorted(failure_signature)) puts the entries   *)
(* in a canonical order and keeps repeated entries, so two signatures are  *)
(* equal iff they hold the same entries the same number of times: a        *)
(* signature is modelled as the count of each (tag, text) entry.           *)
(***************************************************************************)
MaxPatternsShown == 10

RECURSIVE CombinedEntries(_, _)
CombinedEntries(signature, failures) ==
    IF failures = <<>> THEN signature
    ELSE CombinedEntries(
             Inc(signature, <<"combined", combined_key(failures[1].job, failures[1].case)>>),
             Tail(failures))

\* jobs_with_tests: the job names, as written, of the failures of a build
jobs_with_tests(results) ==
    {results.new_failures[i].job : i \in DOMAIN results.new_failures}
    \cup {results.existing_failures[i].job : i \in DOMAIN results.existing_failures}

RECURSIVE JobEntries(_, _, _)
JobEntries(signature, jobs, with_tests) ==
    IF jobs = <<>> THEN signature
    ELSE JobEntries(
             IF jobs[1].status = "Unknown" THEN Inc(signature, <<"hung", jobs[1].name>>)
             ELSE IF jobs[1].name \notin with_tests
                  THEN Inc(signature, <<"job_only", jobs[1].name>>)
             ELSE signature,
             Tail(jobs), with_tests)

failure_signature(results) ==
    JobEntries(
        CombinedEntries(CombinedEntries(EmptyDict, results.new_failures),
                        results.existing_failures),
        results.failed_jobs, jobs_with_tests(results))

\* failures_to_builds[failure_signature].append(build_num): the groups in
\* the order in which their signatures were first seen
Grouped(groups, signature, build_number) ==
    IF \E k \in DOMAIN groups : groups[k].pattern = signature
    THEN [k \in DOMAIN groups |->
            IF groups[k].pattern = signature
            THEN [groups[k] EXCEPT !.builds = Append(@, build_number)]
            ELSE groups[k]]
    ELSE Append(groups, [pattern |-> signature, builds |-> <<build_number>>])

RECURSIVE failures_to_builds(_, _)
failures_to_builds(groups, builds) ==
    IF builds = <<>> THEN groups
    ELSE failures_to_builds(
             IF builds[1].results.status # "SUCCESS"
             THEN Grouped(groups, failure_signature(builds[1].results), builds[1].number)
             ELSE groups,
             Tail(builds))

\* mutant: the groups stay in the order in which they were first seen
InsertedLast(sorted, group) == Append(sorted, group)

\* sorted(..., key=len of the builds, reverse=True) is stable: a group goes
\* behind every group that is not smaller
InsertedBySize(sorted, group) ==
    LET ahead == {k \in DOMAIN sorted : Len(sorted[k].builds) >= Len(group.builds)}
        n == Cardinality(ahead)
    IN  SubSeq(sorted, 1, n) \o <<group>> \o SubSeq(sorted, n + 1, Len(sorted))

RECURSIVE SortedBySize(_, _)
SortedBySize(sorted, groups) ==
    IF groups = <<>> THEN sorted
    ELSE SortedBySize(InsertedBySize(sorted, groups[1]), Tail(groups))

sorted_patterns(builds) == SortedBySize(<<>>, failures_to_builds(<<>>, builds))

\* what print_detailed_failures prints: sorted_patterns[:10]
print_detailed_failures(builds) ==
    SubSeq(sorted_patterns(builds), 1, Min(MaxPatternsShown, Len(sorted_patterns(builds))))

(***************************************************************************)
(* Builds given to the aggregator: sequences of up to MaxBuilds parsed     *)
(* reports, numbered downwards as the walker numbers them.                 *)
(***************************************************************************)
MaxBuilds == 3

CaseA == <<"t", "e", "s", "t", "_", "a">>
CaseB == <<"t", "e", "s", "t", "_", "b">>

TestFailure(job, case, error) == [job |-> job, case |-> case, error |-> error]
ExistingFailure(job, case) == [job |-> job, case |-> case]
FailedJob(name, status) == [name |-> name, status |-> status]
BuildResults(status, new_failures, existing_failures, failed_jobs) ==
    [status |-> status, new_failures |-> new_failures,
     existing_failures |-> existing_failures, failed_jobs |-> failed_jobs]

LdpFailure == TestFailure(LdpTestingJob, CaseA, <<"A", "s", "s", "e", "r", "t", "i", "o", "n", "E", "r", "r", "o", "r", ":", " ", "x">>)
BasicFailure == TestFailure(BasicTestsJob, CaseB, <<"R", "F", "C", " ", "5", "0", "3", "6", " ", "M", "U", "S", "T">>)
UnnamedFailure == TestFailure(NoName, CaseB, <<>>)
TimeoutFailure == TestFailure(LdpTestingJob, CaseB, <<"T", "i", "m", "e", "o", "u", "t", " ", "w", "a", "i", "t", "i", "n", "g">>)
OtherFailure == TestFailure(OspfTestingJob, CaseA, <<"S", "e", "g", "f", "a", "u", "l", "t">>)
AssertionRfcFailure == TestFailure(OspfTestingJob, CaseB, <<"A", "s", "s", "e", "r", "t", "i", "o", "n", "E", "r", "r", "o", "r", ":", " ", "R", "F", "C", " ", "M", "U", "S", "T", " ", "h", "u", "n", "g">>)

SampleResults ==
    { BuildResults("SUCCESS", <<>>, <<>>, <<>>),
      BuildResults("Unknown", <<>>, <<>>, <<>>),
      BuildResults("FAILED", <<LdpFailure>>, <<>>, <<FailedJob(LdpProtocolJob, "Failed")>>),
      BuildResults("FAILED", <<LdpFailure>>, <<>>, <<FailedJob(LdpTestingJob, "Failed")>>),
      BuildResults("FAILED", <<LdpFailure>>, <<>>, <<FailedJob(LdpProtocolJob, "Unknown")>>),
      BuildResults("FAILED", <<>>, <<>>,
                   <<FailedJob(LdpProtocolJob, "Unknown"), FailedJob(LdpProtocolJob, "Failed")>>),
      BuildResults("FAILED", <<>>, <<ExistingFailure(BasicTestsJob, CaseB)>>,
                   <<FailedJob(LdpProtocolJob, "Failed")>>),
      BuildResults("FAILED", <<UnnamedFailure>>, <<>>, <<FailedJob(BuildJob, "Failed")>>),
      BuildResults("FAILED", <<LdpFailure>>, <<>>, <<>>),
      BuildResults("FAILED", <<LdpFailure>>, <<ExistingFailure(LdpTestingJob, CaseA)>>, <<>>),
      BuildResults("FAILED", <<LdpFailure, BasicFailure>>, <<>>, <<>>),
      BuildResults("FAILED", <<BasicFailure, LdpFailure>>, <<>>, <<>>),
      BuildResults("FAILED", <<TimeoutFailure, OtherFailure, AssertionRfcFailure>>, <<>>, <<>>) }

\* the walker numbers the builds it returns downwards
Numbered(results) ==
    [i \in DOMAIN results |-> [number |-> Len(results) - i + 1, results |-> results[i]]]

BuildLists == {Numbered(rs) : rs \in SeqsUpTo(SampleResults, MaxBuilds) \ {<<>>}}

InitAggregate ==
    /\ doc \in DocsWith({})
    /\ tl = LoopIdle
    /\ report = NotCalled
    /\ report2 = NotCalled
    /\ wk = WalkIdle
    /\ nm = NamesIdle
    /\ \E builds \in BuildLists :
         ag = [pc |-> "builds", builds |-> builds, stats |-> <<>>,
               patterns |-> <<>>, shown |-> <<>>]

\* stats = analyze_builds(builds)
Analyze ==
    /\ ag.pc = "builds"
    /\ ag' = [ag EXCEPT !.pc = "analyzed", !.stats = <<analyze_builds(ag.builds)>>]
    /\ UNCHANGED <<doc, report, report2, wk, nm, tl>>

\* print_detailed_failures(builds): the clusters it builds and ranks, and
\* the ones it prints
PrintPatterns ==
    /\ ag.pc = "analyzed"
    /\ ag' = [ag EXCEPT !.pc = "printed",
                        !.patterns = sorted_patterns(ag.builds),
                        !.shown = print_detailed_failures(ag.builds)]
    /\ UNCHANGED <<doc, report, report2, wk, nm, tl>>

NextAggregate == Analyze \/ PrintPatterns

SpecAggregate == InitAggregate /\ [][NextAggregate]_vars

(***************************************************************************)
(* run_topotests_loop.py: main runs pytest again and again, with an        *)
(* optional "stress" process in the background and an optional log file.   *)
(* tl.pc is main's position, tl.codes the exit codes of the runs so far,   *)
(* tl.stress the state of the background process, tl.status the exit       *)
(* status of the script and tl.how the statement that ended it.            *)
(***************************************************************************)
MaxRuns == 2        \* largest --max-runs
RunBound == 3       \* runs after which a loop is followed no further

\* exit codes of "sudo -E pytest": passed, tests failed, interrupted, and
\* sudo killed by signal 9 (subprocess reports -9)
PytestCodes == {0, 1, 130, -9}

\* what subprocess.run does inside run_pytest
PytestOutcomes ==
    {[kind |-> "returned", code |-> c] : c \in PytestCodes}
    \cup {[kind |-> "KeyboardInterrupt", code |-> 0], [kind |-> "Exception", code |-> 0]}

run_pytest(outcome) ==
    IF outcome.kind = "KeyboardInterrupt" THEN 130
    ELSE IF outcome.kind = "Exception" THEN 1
    ELSE outcome.code

\* stop_stress_process(stress_process): nothing for None; else terminate()
\* and wait(timeout=5), and kill() and wait() when the wait timed out
stop_stress_process(stress, exits_in_time) ==
    IF stress = "none" THEN "none"
    ELSE IF exits_in_time THEN "terminated"
    ELSE "killed"

\* the exit status the operating system keeps of sys.exit(code)
sys_exit(code) == code % 256

\* mutant: only a positive exit code counts as a failure
IsFailurePositive(code) == code > 0

\* "if exit_code != 0"
IsFailure(code) == code # 0

\* "if args.max_runs > 0 and run_count >= args.max_runs"
MaxReached(max_runs, run_count) == max_runs > 0 /\ run_count >= max_runs

InitLoop ==
    /\ doc \in DocsWith({})
    /\ report = NotCalled
    /\ report2 = NotCalled
    /\ wk = WalkIdle
    /\ nm = NamesIdle
    /\ ag = AggIdle
    /\ \E max_runs \in 0 .. MaxRuns, stress_arg \in {<<>>, <<0>>, <<4>>},
          log_arg \in BOOLEAN :
         tl = [pc |-> "directory", max_runs |-> max_runs, stress_arg |-> stress_arg,
               log_arg |-> log_arg, run_count |-> 0, codes |-> <<>>,
               stress |-> "none", log |-> "none", status |-> <<>>, how |-> ""]

\* sys.exit(code) at the statement "how"
Exits(s, how, code) == [s EXCEPT !.pc = "exited", !.how = how, !.status = <<sys_exit(code)>>]

\* an exception nothing catches: traceback, exit status 1 (130 for
\* KeyboardInterrupt); no statement of main runs any more
Uncaught(s, how, code) == [s EXCEPT !.pc = "exited", !.how = how, !.status = <<code>>]

\* "if not os.path.exists('tests/topotests')"
CheckDirectory ==
    /\ tl.pc = "directory"
    /\ \E exists \in BOOLEAN :
         tl' = IF exists THEN [tl EXCEPT !.pc = "stress"]
               ELSE Exits(tl, "no directory", 1)
    /\ UNCHANGED <<doc, report, report2, wk, nm, ag>>

\* the --stress option: none, not positive, or Popen of "stress -c N"
StartStress ==
    /\ tl.pc = "stress"
    /\ \E popen \in {"started", "FileNotFoundError", "Exception"} :
         tl' = IF tl.stress_arg = <<>> THEN [tl EXCEPT !.pc = "logging"]
               ELSE IF tl.stress_arg[1] <= 0 THEN Exits(tl, "stress value", 1)
               ELSE IF popen = "started"
                    THEN [tl EXCEPT !.pc = "logging", !.stress = "running"]
               ELSE Exits(tl, "stress not started", 1)
    /\ UNCHANGED <<doc, report, report2, wk, nm, ag>>

\* the --log-file option: open(args.log_file, "w") and the header lines,
\* outside of any try statement
SetupLogging ==
    /\ tl.pc = "logging"
    /\ \E opened \in BOOLEAN :
         tl' = IF ~tl.log_arg THEN [tl EXCEPT !.pc = "loop"]
               ELSE IF opened THEN [tl EXCEPT !.pc = "loop", !.log = "open"]
               ELSE Uncaught(tl, "open raised", 1)
    /\ UNCHANGED <<doc, report, report2, wk, nm, ag>>

\* Ctrl-C before the try statement is entered
InterruptBeforeLoop ==
    /\ tl.pc \in {"stress", "logging"}
    /\ tl' = Uncaught(tl, "KeyboardInterrupt outside try", 130)
    /\ UNCHANGED <<doc, report, report2, wk, nm, ag>>

\* one run: run_count += 1, exit_code = run_pytest(...)
RunPytest ==
    /\ tl.pc = "loop"
    /\ tl.run_count < RunBound
    /\ \E outcome \in PytestOutcomes :
         tl' = [tl EXCEPT !.pc = "ran", !.run_count = @ + 1,
                          !.codes = Append(@, run_pytest(outcome))]
    /\ UNCHANGED <<doc, report, report2, wk, nm, ag>>

exit_code == tl.codes[Len(tl.codes)]

\* "if exit_code != 0": the log is closed, the stress process stopped and
\* the script exits with the exit code
TestFailed ==
    /\ tl.pc = "ran"
    /\ IsFailure(exit_code)
    /\ \E exits_in_time \in BOOLEAN :
         tl' = [Exits(tl, "test failed", exit_code) EXCEPT
                   !.log = IF tl.log = "open" THEN "closed" ELSE tl.log,
                   !.stress = stop_stress_process(tl.stress, exits_in_time)]
    /\ UNCHANGED <<doc, report, report2, wk, nm, ag>>

\* the run passed and was the last one allowed
MaxRunsReached ==
    /\ tl.pc = "ran"
    /\ ~IsFailure(exit_code)
    /\ MaxReached(tl.max_runs, tl.run_count)
    /\ \E exits_in_time \in BOOLEAN :
         tl' = [Exits(tl, "max runs", 0) EXCEPT
                   !.log = IF tl.log = "open" THEN "closed" ELSE tl.log,
                   !.stress = stop_stress_process(tl.stress, exits_in_time)]
    /\ UNCHANGED <<doc, report, report2, wk, nm, ag>>

\* the run passed and another one follows, after the delay
NextRun ==
    /\ tl.pc = "ran"
    /\ ~IsFailure(exit_code)
    /\ ~MaxReached(tl.max_runs, tl.run_count)
    /\ tl' = [tl EXCEPT !.pc = "loop"]
    /\ UNCHANGED <<doc, report, report2, wk, nm, ag>>

\* "except KeyboardInterrupt" of main: Ctrl-C inside the try statement but
\* not during subprocess.run (run_pytest catches that one itself)
KeyboardInterruptInLoop ==
    /\ tl.pc \in {"loop", "ran"}
    /\ \E exits_in_time \in BOOLEAN :
         tl' = [Exits(tl, "interrupted", 130) EXCEPT
                   !.log = IF tl.log = "open" THEN "closed" ELSE tl.log,
                   !.stress = stop_stress_process(tl.stress, exits_in_time)]
    /\ UNCHANGED <<doc, report, report2, wk, nm, ag>>

\* "except Exception" of main: a write to the log file raised (the disk is
\* full, say).  The handler writes to the log and closes it before it stops
\* the stress process; when that raises again, nothing catches it.
UnexpectedError ==
    /\ tl.pc \in {"loop", "ran"}
    /\ tl.log = "open"
    /\ \E raises_again \in BOOLEAN, exits_in_time \in BOOLEAN :
         tl' = IF raises_again THEN Uncaught(tl, "handler raised", 1)
               ELSE [Exits(tl, "unexpected error", 1) EXCEPT
                        !.log = "closed",
                        !.stress = stop_stress_process(tl.stress, exits_in_time)]
    /\ UNCHANGED <<doc, report, report2, wk, nm, ag>>

NextLoop ==
    \/ CheckDirectory \/ StartStress \/ SetupLogging \/ InterruptBeforeLoop
    \/ RunPytest \/ TestFailed \/ MaxRunsReached \/ NextRun
    \/ KeyboardInterruptInLoop \/ UnexpectedError

SpecLoop == InitLoop /\ [][NextLoop]_vars

(***************************************************************************)
(* Properties of parse_build_status (checked under SpecParse)              *)
(***************************************************************************)
Returned == report.outcome = "returned"
R == report.value[1]
Evidence(r) == r.new_failures # <<>> \/ r.existing_failures # <<>> \/ r.failed_jobs # <<>>

\* C1 as stated: whenever the returned report has a non-empty new_failures,
\* existing_failures or failed_jobs, its status is FAILED, whatever the
\* headings say.
C1_EvidenceForcesFailed ==
    (Returned /\ Evidence(R)) => R.status = "FAILED"

\* C1 amended: with failure evidence the status is never Unknown, and it is
\* FAILED unless heading heuristic 1 or 2 resolved SUCCESS, which then stays.
C1_EvidenceFailedUnlessHeadingSuccess ==
    (Returned /\ Evidence(R)) =>
        /\ R.status \in {"FAILED", "SUCCESS"}
        /\ R.status = "SUCCESS" => Method2(doc, Method1(doc)) = "SUCCESS"

\* a document without any status signal whose failed job item alone makes
\* the report FAILED
C1_Witness ==
    /\ Returned /\ R.failed_jobs # <<>> /\ R.new_failures = <<>>
    /\ HeuristicStatus(doc) = "Unknown"
    /\ R.status = "FAILED"

\* C2 as stated: whenever the returned report has no failure evidence and
\* total_tests > 0, its status is SUCCESS, whatever heading, counters or
\* the failing-since marker say.
C2_NoEvidenceIsSuccess ==
    (Returned /\ ~Evidence(R) /\ R.total_tests > 0) => R.status = "SUCCESS"

\* C2 amended: without failure evidence and with total_tests > 0 the status
\* is never Unknown, and it is SUCCESS unless one of the heuristics 1-4
\* resolved FAILED, which then stays.
C2_NoEvidenceSuccessUnlessHeuristicFailed ==
    (Returned /\ ~Evidence(R) /\ R.total_tests > 0) =>
        /\ R.status \in {"FAILED", "SUCCESS"}
        /\ R.status = "FAILED" => HeuristicStatus(doc) = "FAILED"

\* a document with nothing but a total-test count is reported SUCCESS
C2_Witness ==
    /\ Returned /\ ~Evidence(R) /\ R.total_tests = 500
    /\ HeuristicStatus(doc) = "Unknown"
    /\ R.status = "SUCCESS"

\* C3: when the first h1 holds "failed" as a whole word (in any case), the
\* returned status is FAILED, whatever else the heading and the page hold.
C3_FailedHeadingIsFailed ==
    (Returned /\ doc.h1 # <<>> /\ \E i \in DOMAIN doc.h1[1] : Lower(doc.h1[1][i]) = "failed")
        => R.status = "FAILED"

\* a heading that holds "successful" before "FAILED", on a page with a
\* total-test count and no failure evidence
C3_Witness ==
    /\ Returned
    /\ doc.h1 # <<>> /\ doc.h1[1] = <<"Build", "#9", "successful", "FAILED">>
    /\ R.total_tests = 500 /\ ~Evidence(R)
    /\ R.status = "FAILED"

\* C4: when none of the heuristics 1-4 fires, the failure lists and
\* failed_jobs are empty and total_tests is 0, the returned status is
\* Unknown; and a returned status is always SUCCESS, FAILED or Unknown.
C4_UnknownWhenNothingFires ==
    Returned =>
        /\ R.status \in {"SUCCESS", "FAILED", "Unknown"}
        /\ (HeuristicStatus(doc) = "Unknown" /\ ~Evidence(R) /\ R.total_tests = 0)
               => R.status = "Unknown"

\* a heading in which "failed" is only part of a word, a table that yields
\* no failure row: the report says Unknown
C4_Witness ==
    /\ Returned /\ R.status = "Unknown"
    /\ doc.h1 = << <<"Build", "unfailed">> >>
    /\ doc.layout.tables # <<>>

\* C5: a call of parse_build_status never raises: it returns a report.
C5_NeverRaises ==
    report.outcome # "none" => report.outcome = "returned"

InBuilds(n) == \E k \in DOMAIN wk.builds : wk.builds[k].number = n

\* C7: no build of the result has a parsed completion date earlier than
\* the reference date minus the window.
C7_NoBuildBeforeCutoff ==
    \A k \in DOMAIN wk.builds :
        LET date == ParseDate(wk.builds[k].completed_time)
        IN  date # NoDate => date >= wk.reference_date - wk.days

\* the walk ended at a build older than the cutoff, after it had appended
\* builds inside the window
C7_Witness ==
    /\ wk.pc = "done" /\ wk.end = "cutoff"
    /\ Len(wk.builds) >= 2

\* C8: when the reference date was established, the returned sequence
\* contains the reference build.
C8_ReferenceIncluded ==
    (wk.pc = "done" /\ wk.reference_date # NoDate) => InBuilds(wk.latest_build_num)

\* C9: when the reference date cannot be obtained, the function returns
\* the empty sequence after the one fetch of the reference build.
C9_NoReferenceNoResults ==
    (wk.pc # "init" /\ wk.pc # "idle" /\ wk.reference_date = NoDate) =>
        /\ wk.pc = "done"
        /\ wk.end \in {"no reference", "no reference date"}
        /\ wk.builds = <<>>
        /\ Len(wk.fetched) = 1
        /\ wk.fetched[1].number = wk.latest_build_num

\* the reference page was fetched and its date text was rejected by
\* strptime, with older builds there to fetch
C9_Witness ==
    /\ wk.pc = "done" /\ wk.end = "no reference date"
    /\ wk.page[wk.latest_build_num].kind = "badday"
    /\ wk.latest_build_num > 1
    /\ wk.builds = <<>>

\* the try body of the loop has just left by an exception
StepFailed ==
    /\ wk.pc = "step"
    /\ Len(wk'.fetched) = Len(wk.fetched) + 1
    /\ wk'.fetched[Len(wk'.fetched)].outcome # "ok"

\* every id fetched in the loop whose page was parsed and dated inside the
\* window is in the result, and no id whose try body failed is
FetchedInWindowAppended ==
    \A k \in DOMAIN wk.fetched :
        k >= 2 =>
            LET f == wk.fetched[k]
                date == ParseDate(wk.page[f.number])
            IN  /\ (f.outcome = "ok" /\ date # NoDate
                      /\ date >= wk.reference_date - wk.days) => InBuilds(f.number)
                /\ f.outcome # "ok" => ~InBuilds(f.number)

\* C10: a failed id leaves the result as it is and the walk goes on with
\* the next lower id; ids fetched later inside the window are appended.
C10_FetchFailureSkipsId ==
    /\ [][StepFailed => /\ wk'.builds = wk.builds
                        /\ wk'.pc = "step"
                        /\ build_num(wk') = build_num(wk) - 1]_vars
    /\ []FetchedInWindowAppended

\* two ids failed and the id after them was appended
C10_Witness ==
    /\ Len(wk.fetched) = 4
    /\ wk.fetched[2].outcome # "ok" /\ wk.fetched[3].outcome # "ok"
    /\ wk.fetched[4].outcome = "ok" /\ InBuilds(wk.fetched[4].number)

\* the ids asked for in the loop (every entry of fetched after the first)
StepFetches == Len(wk.fetched) - 1

\* at most WalkBound attempts in the loop, on the ids reference,
\* reference-1, ... and never below 1; the loop ends by the cutoff, by id
\* underflow or by the bound; the result is no longer than the bound and
\* its ids strictly descend
C11_Bounded ==
    /\ StepFetches <= WalkBound
    /\ \A k \in DOMAIN wk.fetched :
          k >= 2 => /\ wk.fetched[k].number = wk.latest_build_num - (k - 2)
                    /\ wk.fetched[k].number >= 1
    /\ (wk.pc = "done" /\ wk.reference_date # NoDate)
          => wk.end \in {"cutoff", "underflow", "bound"}
    /\ Len(wk.builds) <= WalkBound
    /\ \A j, k \in DOMAIN wk.builds :
          j < k => wk.builds[j].number > wk.builds[k].number

C12_InterruptKeepsReports ==
    (wk.end = "KeyboardInterrupt" /\ wk.builds # <<>>) =>
        /\ wk.pc = "reported"
        /\ wk.reported = <<wk.builds>>

(***************************************************************************)
(* Properties of analyze_builds and print_detailed_failures (checked under *)
(* SpecAggregate)                                                          *)
(***************************************************************************)
Analyzed == ag.pc \in {"analyzed", "printed"}
Stats == ag.stats[1]

\* the failures of a build, new and existing, by job name
FailureJobs(results) ==
    {results.new_failures[i].job : i \in DOMAIN results.new_failures}
    \cup {results.existing_failures[i].job : i \in DOMAIN results.existing_failures}

\* which job titles match after normalization
TitlesMatch ==
    [a \in JobTitles |->
        [b \in JobTitles |-> jobs_match(normalize_job_name(a), normalize_job_name(b))]]

\* a test failure of the same build has a job name that matches
Explained(results, job_name) ==
    \E other \in FailureJobs(results) : TitlesMatch[job_name][other]

\* the Failed job entries of that name that no test failure of their own
\* build explains, as (position of the build, position of the job)
Unexplained(job_name) ==
    {p \in (DOMAIN ag.builds) \X (1 .. 2) :
        LET results == ag.builds[p[1]].results
        IN  /\ p[2] \in DOMAIN results.failed_jobs
            /\ results.failed_jobs[p[2]].name = job_name
            /\ results.failed_jobs[p[2]].status = "Failed"
            /\ ~Explained(results, job_name)}

JobFailedData == Get(Stats.test_failures, JobFailedTest, NoTestData)

\* C13: a Failed job gets a "(Job Failed)" entry iff no test failure of the
\* same build has a matching normalized job name: per job name the entries
\* recorded are exactly the unexplained Failed jobs, over all builds, and a
\* build with a failure on "LDP Testing on Debian 12" and the Failed job
\* "IPv4 LDP Protocol on Debian 12" gets none for that job.
C13_JobFailedIffUnexplained ==
    Analyzed =>
        /\ \A job_name \in JobTitles :
              /\ Get(JobFailedData.jobs, job_name, 0) = Cardinality(Unexplained(job_name))
              /\ Get(Stats.combined_failures, combined_key(job_name, JobFailedTest), 0)
                     = Cardinality(Unexplained(job_name))
        /\ JobFailedData.builds
              = {ag.builds[p[1]].number : p \in UNION {Unexplained(n) : n \in JobTitles}}
        /\ \A k \in DOMAIN ag.builds :
              (/\ LdpTestingJob \in FailureJobs(ag.builds[k].results)
               /\ ag.builds[k].results.failed_jobs = <<FailedJob(LdpProtocolJob, "Failed")>>)
                  => ag.builds[k].number \notin JobFailedData.builds

\* the LDP job failed in two builds: the first has the LDP test failure and
\* gets no entry, the second has no test failure (the job also hung there)
\* and gets one
C13_Witness ==
    /\ Analyzed /\ Len(ag.builds) = 2
    /\ ag.builds[1].results
          = BuildResults("FAILED", <<LdpFailure>>, <<>>, <<FailedJob(LdpProtocolJob, "Failed")>>)
    /\ ag.builds[2].results
          = BuildResults("FAILED", <<>>, <<>>,
                         <<FailedJob(LdpProtocolJob, "Unknown"),
                           FailedJob(LdpProtocolJob, "Failed")>>)
    /\ JobFailedData.count = 1
    /\ JobFailedData.builds = {1}

\* the job entries of that name with status Unknown, as (position of the
\* build, position of the job)
HungEntries(job_name) ==
    {p \in (DOMAIN ag.builds) \X (1 .. 2) :
        LET results == ag.builds[p[1]].results
        IN  /\ p[2] \in DOMAIN results.failed_jobs
            /\ results.failed_jobs[p[2]].name = job_name
            /\ results.failed_jobs[p[2]].status = "Unknown"}

\* C14: every job entry with status Unknown is counted as a hung instance:
\* hung_jobs[name] is the number of Unknown entries of that name over all
\* builds, whatever test failures and matching job names the builds have.
C14_HungAlwaysCounted ==
    Analyzed =>
        /\ DOMAIN Stats.hung_jobs = {n \in JobTitles : HungEntries(n) # {}}
        /\ \A job_name \in JobTitles :
              Get(Stats.hung_jobs, job_name, 0) = Cardinality(HungEntries(job_name))

\* the LDP job hung in two builds, in one of them next to a test failure
\* whose job name matches it
C14_Witness ==
    /\ Analyzed
    /\ \E k \in DOMAIN ag.builds :
          /\ ag.builds[k].results.failed_jobs = <<FailedJob(LdpProtocolJob, "Unknown")>>
          /\ Explained(ag.builds[k].results, LdpProtocolJob)
    /\ Get(Stats.hung_jobs, LdpProtocolJob, 0) = 2

\* the builds whose report has that status
BuildsWithStatus(status) ==
    {k \in DOMAIN ag.builds : ag.builds[k].results.status = status}

\* C15: the failed count is the number of reports with status FAILED and
\* the successful count the number with status SUCCESS, so a report with
\* status Unknown is counted in neither.
C15_UnknownInNeitherCount ==
    Analyzed =>
        /\ Stats.failed = Cardinality(BuildsWithStatus("FAILED"))
        /\ Stats.successful = Cardinality(BuildsWithStatus("SUCCESS"))

Printed == ag.pc = "printed"

\* the clusters that hold the build of that number
ClustersOf(number) ==
    {c \in DOMAIN ag.patterns :
        \E j \in DOMAIN ag.patterns[c].builds : ag.patterns[c].builds[j] = number}

NonSuccess == {k \in DOMAIN ag.builds : ag.builds[k].results.status # "SUCCESS"}

\* C16: the clusters partition the builds that are not SUCCESS by equality
\* of their signatures (every such build is in exactly one cluster, once;
\* two of them share a cluster iff their signatures are equal; no SUCCESS
\* build is in a cluster), and the clusters are listed in non-increasing
\* order of their number of builds.
C16_ClustersPartitionBySignature ==
    Printed =>
        /\ \A k \in DOMAIN ag.builds :
              Cardinality(ClustersOf(ag.builds[k].number))
                 = IF k \in NonSuccess THEN 1 ELSE 0
        /\ \A c \in DOMAIN ag.patterns :
              \A i, j \in DOMAIN ag.patterns[c].builds :
                 i # j => ag.patterns[c].builds[i] # ag.patterns[c].builds[j]
        /\ \A k1, k2 \in NonSuccess :
              (ClustersOf(ag.builds[k1].number) = ClustersOf(ag.builds[k2].number))
                 <=> (failure_signature(ag.builds[k1].results)
                         = failure_signature(ag.builds[k2].results))
        /\ \A c, d \in DOMAIN ag.patterns :
              c < d => Len(ag.patterns[c].builds) >= Len(ag.patterns[d].builds)

\* builds 2 and 1 share the signature of one combined entry and build 3 has
\* another one: the cluster of size 2 is listed first, though its signature
\* was seen last
C16_Witness ==
    /\ Printed /\ Len(ag.builds) = 3
    /\ ag.builds[2].results = BuildResults("FAILED", <<LdpFailure>>, <<>>, <<>>)
    /\ ag.builds[3].results = ag.builds[2].results
    /\ ag.builds[1].results.status = "FAILED"
    /\ Len(ag.patterns) = 2
    /\ ag.patterns[1].builds = <<2, 1>>
    /\ ag.patterns[2].builds = <<3>>

\* the entries of a build's signature as a set: each (tag, text) once
SignatureEntries(results) == DOMAIN failure_signature(results)

\* C17: two builds that are not SUCCESS and whose signature entries are
\* equal as sets, whatever the order and the number of times each entry is
\* listed, are in the same cluster.
C17_SameEntriesSameCluster ==
    Printed =>
        \A k1, k2 \in NonSuccess :
            SignatureEntries(ag.builds[k1].results) = SignatureEntries(ag.builds[k2].results)
                => ClustersOf(ag.builds[k1].number) = ClustersOf(ag.builds[k2].number)

(***************************************************************************)
(* Properties of normalize_job_name and jobs_match (checked under          *)
(* SpecNames)                                                              *)
(***************************************************************************)
Matched == nm.pc = "matched"

\* C18: jobs_match is reflexive on non-empty normalized names, those made
\* only of build-metadata words (amd64, part, build, ...) included.
C18_MatchReflexive ==
    Matched =>
        /\ nm.na # <<>> => nm.aa
        /\ nm.nb # <<>> => nm.bb

\* a name whose words are all left out of the word sets matches itself
C18_Witness ==
    /\ Matched
    /\ nm.a = BuildJob
    /\ Range(str_split(nm.na)) \ common_words = {}
    /\ nm.na # <<>>
    /\ nm.aa

LdpDebian12 == <<"l", "d", "p", " ", "d", "e", "b", "i", "a", "n", " ", "1", "2">>

\* C19: "IPv4 LDP Protocol on Debian 12" and "LDP Testing on Debian 12"
\* both normalize to "ldp debian 12", and the two normalized names match.
C19_LdpTitlesMatch ==
    /\ (nm.pc \in {"normalized", "matched"} /\ nm.a \in {LdpProtocolJob, LdpTestingJob})
          => nm.na = LdpDebian12
    /\ (nm.pc \in {"normalized", "matched"} /\ nm.b \in {LdpProtocolJob, LdpTestingJob})
          => nm.nb = LdpDebian12
    /\ (Matched /\ nm.a = LdpProtocolJob /\ nm.b = LdpTestingJob) => (nm.ab /\ nm.ba)

\* the two titles, normalized and matched
C19_Witness ==
    /\ Matched
    /\ nm.a = LdpProtocolJob /\ nm.b = LdpTestingJob
    /\ nm.na = nm.nb
    /\ nm.ab

\* the loop has just fetched and parsed a page whose completion date is
\* missing or does not parse
StepUndated ==
    /\ wk.pc = "step"
    /\ Len(wk'.fetched) = Len(wk.fetched) + 1
    /\ wk'.fetched[Len(wk'.fetched)].outcome = "ok"
    /\ ParseDate(wk.page[build_num(wk)]) = NoDate

\* C20: a fetched document without a date that parses does not end the
\* walk: it is appended to the result and the walk goes on with the next
\* lower id.
C20_UndatedIsAppended ==
    [][StepUndated =>
          /\ wk'.builds = Append(wk.builds, [number |-> build_num(wk),
                                              completed_time |-> wk.page[build_num(wk)]])
          /\ wk'.pc = "step"
          /\ build_num(wk') = build_num(wk) - 1]_vars

\* an undated build is in the result, followed by an older build that was
\* appended after it
C20_Witness ==
    \E k \in DOMAIN wk.builds :
        /\ ParseDate(wk.builds[k].completed_time) = NoDate
        /\ wk.builds[k].completed_time.kind = "badday"
        /\ k < Len(wk.builds)

(***************************************************************************)
(* Further properties of parse_build_status (checked under SpecParse)      *)
(***************************************************************************)
\* what each heuristic and each post-hoc pass says on its own, in the
\* order of the chain; the post-hoc passes read the finished lists
Verdicts ==
    << Method1(doc),
       Method2(doc, "Unknown"),
       Method3(doc, "Unknown"),
       Method4(doc, "Unknown"),
       IF Evidence(R) THEN "FAILED" ELSE "Unknown",
       IF R.total_tests > 0 /\ ~Evidence(R) THEN "SUCCESS" ELSE "Unknown" >>

\* C21: the status is the verdict of the first heuristic or pass of the
\* chain that resolves SUCCESS or FAILED, and no later one changes it: a
\* first heading with "successful" (and without "failed") gives SUCCESS
\* even with a nonzero failure counter or a failing-since marker.
C21_FirstVerdictWins ==
    Returned =>
        /\ \A k \in DOMAIN Verdicts :
              (Verdicts[k] # "Unknown" /\ \A j \in 1 .. k - 1 : Verdicts[j] = "Unknown")
                  => R.status = Verdicts[k]
        /\ (\A k \in DOMAIN Verdicts : Verdicts[k] = "Unknown") => R.status = "Unknown"
        /\ (doc.h1 # <<>> /\ HasWord(doc.h1[1], "successful") /\ ~HasWord(doc.h1[1], "failed"))
              => R.status = "SUCCESS"

\* a first heading that says "successful" on a page whose counter of new
\* test failures is 2
C21_Witness ==
    /\ Returned
    /\ doc.h1 # <<>> /\ Method1(doc) = "SUCCESS"
    /\ doc.newCount = 2
    /\ Method3(doc, "Unknown") = "FAILED"
    /\ R.status = "SUCCESS"

\* the sanitizer details of the report's failed jobs that parse_asan_details
\* extracted from a log text
LogDetails ==
    {R.failed_jobs[i].asan_details[1] :
        i \in {k \in DOMAIN R.failed_jobs :
                 /\ R.failed_jobs[k].asan_details # <<>>
                 /\ "leak_type" \in DOMAIN R.failed_jobs[k].asan_details[1]}}

IsSubstring(a, b) ==
    \E i \in 1 .. Len(b) - Len(a) + 1 : SubSeq(b, i, i + Len(a) - 1) = a

BuildMetadataTokens ==
    {<<"p", "a", "r", "t">>, <<"b", "u", "i", "l", "d">>, <<"a", "m", "d", "6", "4">>,
     <<"a", "r", "m", "8">>, <<"i", "3", "8", "6">>}

\* the words of a normalized name without the build-metadata tokens
DistinguishingWords(n) == Range(str_split(n)) \ BuildMetadataTokens

\* the word rule: both sets non-empty and shared / smaller >= 0.66
WordOverlap(a, b) ==
    LET wa == DistinguishingWords(a)
        wb == DistinguishingWords(b)
    IN  /\ wa # {} /\ wb # {}
        /\ 100 * Cardinality(wa \cap wb) >= 66 * Min(Cardinality(wa), Cardinality(wb))

LdpDebian == <<"l", "d", "p", " ", "d", "e", "b", "i", "a", "n">>

\* C23: jobs_match(a, b) is True iff one name is a substring of the other
\* or the word rule holds (2 shared of 3 matches, 1 shared of 2 does not),
\* and the result does not depend on the argument order.
C23_MatchRule ==
    Matched =>
        /\ nm.ab = (IsSubstring(nm.na, nm.nb) \/ IsSubstring(nm.nb, nm.na)
                       \/ WordOverlap(nm.na, nm.nb))
        /\ nm.ba = nm.ab
        /\ (nm.a = LdpTestingJob /\ nm.b = OspfTestingJob) => nm.ab
        /\ (nm.na = LdpDebian /\ nm.b = AsanJob) => ~nm.ab

\* "ldp debian 12" and "ospf debian 12": neither holds the other, two of
\* three words are shared, and the names match
C23_Witness ==
    /\ Matched
    /\ nm.a = LdpTestingJob /\ nm.b = OspfTestingJob
    /\ ~IsSubstring(nm.na, nm.nb) /\ ~IsSubstring(nm.nb, nm.na)
    /\ Cardinality(DistinguishingWords(nm.na) \cap DistinguishingWords(nm.nb)) = 2
    /\ Cardinality(DistinguishingWords(nm.na)) = 3
    /\ nm.ab /\ nm.ba

\* "ldp debian" and "addresssanitizer debian 12 amd64": one shared word of
\* two, no match
C23_HalfOverlap ==
    /\ Matched
    /\ nm.na = LdpDebian /\ nm.b = AsanJob
    /\ ~nm.ab

Normalized == nm.pc \in {"normalized", "matched"}

\* the words of a name that are not filler tokens, in order
KeptWords(name) ==
    SelectSeq(str_split(str_lower(name)), LAMBDA w : w \notin Range(FillerWords))

\* C24: normalize_job_name removes the filler tokens as whole tokens: the
\* words of the output are the non-filler words of the lowercased input,
\* unchanged and in order, and no filler token is a word of the output.
C24_WholeTokensRemoved ==
    Normalized =>
        /\ str_split(nm.na) = KeptWords(nm.a)
        /\ str_split(nm.nb) = KeptWords(nm.b)
        /\ Range(str_split(nm.na)) \cap Range(FillerWords) = {}
        /\ Range(str_split(nm.nb)) \cap Range(FillerWords) = {}

(***************************************************************************)
(* Further properties of the aggregator (checked under SpecAggregate)      *)
(***************************************************************************)
AssertionBucket == "AssertionError"
RfcBucket == "RFC Compliance"
TimeoutBucket == "Timeout/Hung"
OtherBucket == "Other Error"
Buckets == {AssertionBucket, RfcBucket, TimeoutBucket, OtherBucket}

\* the bucket the priority order gives an excerpt, "" for the empty excerpt
BucketOf(error) ==
    IF IsSubstring(<<"A", "s", "s", "e", "r", "t", "i", "o", "n", "E", "r", "r", "o", "r">>, error) THEN AssertionBucket
    ELSE IF IsSubstring(<<"R", "F", "C">>, error) \/ IsSubstring(<<"M", "U", "S", "T">>, error) THEN RfcBucket
    ELSE IF IsSubstring(<<"t", "i", "m", "e", "o", "u", "t">>, str_lower(error)) \/ IsSubstring(<<"h", "u", "n", "g">>, str_lower(error))
         THEN TimeoutBucket
    ELSE IF Len(error) > 0 THEN OtherBucket
    ELSE ""

\* the new failures of all builds, as (position of the build, position of
\* the failure)
NewFailurePositions ==
    {p \in (DOMAIN ag.builds) \X (1 .. 3) :
        p[2] \in DOMAIN ag.builds[p[1]].results.new_failures}

ErrorAt(p) == ag.builds[p[1]].results.new_failures[p[2]].error

RECURSIVE SumOver(_, _)
SumOver(d, keys) ==
    IF keys = {} THEN 0
    ELSE LET k == CHOOSE x \in keys : TRUE
         IN  d[k] + SumOver(d, keys \ {k})

\* C25: each new failure with a non-empty error excerpt increments exactly
\* one bucket of the histogram, chosen by the priority AssertionError, RFC
\* or MUST, timeout or hung (any case), Other Error; new failures with an
\* empty excerpt and existing failures change nothing, so the total is the
\* number of new failures with a non-empty excerpt.
C25_HistogramByPriority ==
    Analyzed =>
        /\ DOMAIN Stats.error_types \subseteq Buckets
        /\ \A b \in Buckets :
              Get(Stats.error_types, b, 0)
                  = Cardinality({p \in NewFailurePositions : BucketOf(ErrorAt(p)) = b})
        /\ SumOver(Stats.error_types, DOMAIN Stats.error_types)
              = Cardinality({p \in NewFailurePositions : ErrorAt(p) # <<>>})

\* a build with the excerpts "Timeout waiting", "Segfault" and
\* "AssertionError: RFC MUST hung", a build whose new failure has no
\* excerpt, and a build with an existing failure
C25_Witness ==
    /\ Analyzed
    /\ \E i, j, k \in DOMAIN ag.builds :
          /\ ag.builds[i].results.new_failures
                 = <<TimeoutFailure, OtherFailure, AssertionRfcFailure>>
          /\ ag.builds[j].results.new_failures = <<UnnamedFailure>>
          /\ ag.builds[k].results.existing_failures # <<>>
    /\ Get(Stats.error_types, TimeoutBucket, 0) = 1
    /\ Get(Stats.error_types, OtherBucket, 0) = 1
    /\ Get(Stats.error_types, AssertionBucket, 0) >= 1
    /\ Get(Stats.error_types, RfcBucket, 0) = 0

(***************************************************************************)
(* The two table scans of parse_build_status (checked under SpecParse)     *)
(***************************************************************************)
\* the test cell texts recorded in a list of failure records; the rows of
\* a sample page differ in their test cells, so a text stands for its row
RowsRecorded(failures) == {failures[i].test : i \in DOMAIN failures}

\* C27: no table row is recorded both in new_failures and in
\* existing_failures of the same report.
C27_RowRecordedOnce ==
    Returned => RowsRecorded(R.new_failures) \cap RowsRecorded(R.existing_failures) = {}

(***************************************************************************)
(* Names without distinguishing words                                      *)
(***************************************************************************)
\* C28: jobs_match returns False whenever either normalized name is the
\* empty string (checked under SpecNames).
C28_EmptyNameNeverMatches ==
    Matched => ((nm.na = <<>> \/ nm.nb = <<>>) => (~nm.ab /\ ~nm.ba))

\* its consequence in analyze_builds (under SpecAggregate): the build whose
\* only test failure has an empty job name, and whose job "amd64 build"
\* has status Failed, has a "(Job Failed)" entry
UnnamedFailureDoesNotSuppress ==
    Analyzed =>
        \A k \in DOMAIN ag.builds :
            (/\ ag.builds[k].results.new_failures = <<UnnamedFailure>>
             /\ ag.builds[k].results.failed_jobs = <<FailedJob(BuildJob, "Failed")>>)
                => ag.builds[k].number \in JobFailedData.builds

(***************************************************************************)
(* The aggregator against the clustering (checked under SpecAggregate)     *)
(***************************************************************************)
\* the numbers of the builds whose cluster has a job_only entry for the job
JobOnlyBuilds(job_name) ==
    UNION {Range(ag.patterns[c].builds) :
             c \in {k \in DOMAIN ag.patterns :
                      <<"job_only", job_name>> \in DOMAIN ag.patterns[k].pattern}}

\* the numbers of the builds in which the job has status Failed
FailedIn(job_name) ==
    {ag.builds[k].number :
        k \in {i \in DOMAIN ag.builds :
                 \E j \in DOMAIN ag.builds[i].results.failed_jobs :
                    ag.builds[i].results.failed_jobs[j]
                       = FailedJob(job_name, "Failed")}}

\* C29: a Failed job is a job_only entry of its build's signature iff
\* analyze_builds records a "(Job Failed)" entry for it in that build: the
\* builds with a job_only entry are the builds of the "(Job Failed)" data,
\* and per job the builds with a job_only entry for it are those where it
\* failed and that the "(Job Failed)" data lists.
C29_JobOnlyIffJobFailed ==
    Printed =>
        /\ UNION {JobOnlyBuilds(n) : n \in JobTitles} = JobFailedData.builds
        /\ \A n \in JobTitles :
              (JobOnlyBuilds(n) # {}) <=> (Get(JobFailedData.jobs, n, 0) > 0)

(***************************************************************************)
(* Properties of the topotest loop (checked under SpecLoop)                *)
(***************************************************************************)
Exited == tl.pc = "exited"
AllPassed(codes) == \A i \in DOMAIN codes : codes[i] = 0

\* the loop itself: no run is started after a run with a non-zero exit
\* code, and with --max-runs N > 0 no run after the N-th
LoopStopsAtFirstFailure ==
    /\ tl.run_count = Len(tl.codes)
    /\ AllPassed(SubSeq(tl.codes, 1, Len(tl.codes) - 1))
    /\ tl.max_runs > 0 => tl.run_count <= tl.max_runs
    /\ (Exited /\ tl.how = "max runs")
          => (tl.max_runs > 0 /\ tl.run_count = tl.max_runs /\ AllPassed(tl.codes)
              /\ tl.status = <<0>>)
    /\ (Exited /\ tl.how = "test failed") => (tl.codes # <<>> /\ exit_code # 0)
    /\ (Exited /\ tl.max_runs = 0 /\ AllPassed(tl.codes))
          => tl.how \notin {"test failed", "max runs"}
    /\ (Exited /\ tl.codes # <<>> /\ tl.status = <<0>>) => tl.how = "max runs"

\* C26 as stated: the loop stops at the first run with a non-zero exit code
\* and the exit status of the script is exactly that exit code.
C26_ExitsWithExactCode ==
    /\ LoopStopsAtFirstFailure
    /\ (Exited /\ tl.how = "test failed") => tl.status = <<exit_code>>

\* C26, amended: the loop stops at the first run with a non-zero exit code
\* and calls sys.exit with it, so that the exit status is that code modulo
\* 256: the code itself when it is in 1 .. 255, and 256 - n, not zero, when
\* the run was killed by signal n (exit code -n); after N passed runs with
\* --max-runs N > 0 the status is 0, and with --max-runs 0 the loop is left
\* only by a failed run, an interrupt or an error.
C26_ExitsWithCodeModulo256 ==
    /\ LoopStopsAtFirstFailure
    /\ (Exited /\ tl.how = "test failed")
          => /\ tl.status # <<0>>
             /\ tl.status = <<IF exit_code > 0 THEN exit_code ELSE 256 + exit_code>>

\* two runs passed and the third was killed by signal 9: exit status 247
C26_Witness ==
    /\ Exited /\ tl.how = "test failed"
    /\ tl.max_runs = 0
    /\ tl.codes = <<0, 0, -9>>
    /\ tl.status = <<247>>

\* --max-runs 2, two runs passed: exit status 0 after exactly two runs
C26_MaxRunsWitness ==
    /\ Exited /\ tl.how = "max runs"
    /\ tl.max_runs = 2 /\ tl.codes = <<0, 0>> /\ tl.status = <<0>>

\* C30: once the stress process has been started, the script never exits
\* and leaves it running, whatever ends the script.
C30_StressStoppedAtExit ==
    Exited => tl.stress # "running"

\* on the paths that reach stop_stress_process the process is terminated,
\* or killed when it did not exit within the five seconds
StressStoppedWhereHandled ==
    (Exited /\ tl.how \in {"test failed", "max runs", "interrupted", "unexpected error"})
        => tl.stress \in {"none", "terminated", "killed"}

====
